---- MODULE Spec2Model ----
(***************************************************************************)
(* Model of the streaming data pipeline: the Parquet sink writer           *)
(* (src/src/sink_writer.py), the batch accumulator of the Kafka consumer   *)
(* (src/src/consumer.py), the dead-letter error analysis and handler       *)
(* (src/src/dead_letter_handler.py), the producer's routing of events      *)
(* (src/src/producer.py) and the orchestrator with its four concurrent     *)
(* loops (src/src/pipeline.py).                                            *)
(***************************************************************************)
EXTENDS Integers, Sequences, FiniteSets, TLC

VARIABLES
    \* ---- ParquetSinkWriter (sink_writer.py) ----
    batch_size,            \* self.batch_size
    current_batch,         \* self.current_batch : sequence of buffered records
    file_count,            \* self.file_count
    total_events_written,  \* self.total_events_written
    files,                 \* the output directory: one entry per written file
    \* ---- observation of the sink writer's calls ----
    addCalls,              \* number of add_event calls that returned True
    autoFlushes,           \* number of flush_batch calls made from inside add_event
    onlyAdds,              \* TRUE while every call so far was add_event
    lastOp,                \* name of the last completed sink operation
    lastRet,               \* its return value
    lastWrite,             \* "none" | "ok" | "fail": the write it attempted
    \* ---- EventConsumer.consume_batch (consumer.py) ----
    cbPc,                  \* "idle" | "loop" | "done": position in consume_batch
    cbBatchSizeArg,        \* the batch_size argument of the call
    cbTimeoutArg,          \* the timeout argument of the call, in ticks
    messages,              \* the local list messages
    elapsed,               \* time.time() - start_time, in ticks
    pollLog,               \* the consume_message calls in order: poll outcome, result, start time
    cbRet,                 \* the list returned by the call
    \* ---- DeadLetterHandler error analysis (dead_letter_handler.py) ----
    dlEvent,               \* the dead-letter record analysed last
    dlAnalysis,            \* its error_analysis
    dlAnalyzed,            \* TRUE once a record has been analysed
    \* ---- DeadLetterHandler.process_dead_letter_event (dead_letter_handler.py) ----
    processed_count,       \* self.processed_count
    error_count,           \* self.error_count
    dead_letter_files,     \* the dead-letter directory: one document per written record
    hGiven,                \* the event dict as the last call received it
    hEvent,                \* the same dict when the call returned
    hRet,                  \* the value the last call returned
    handlerCalls,          \* number of calls of process_dead_letter_event so far
    \* ---- EventProducer.process_event (producer.py) and the two topics ----
    events_topic,          \* records published to the events topic
    dead_letter_topic,     \* records published to the dead-letter topic
    producer_event_count,  \* EventProducer.event_count
    producer_error_count,  \* EventProducer.error_count
    producerRet,           \* the value the last process_event call returned
    dlOffset,              \* dead-letter records already consumed from the topic
    \* ---- StreamingPipeline.process_valid_events (pipeline.py) ----
    metrics,               \* self.metrics: the PipelineMetrics counters
    pvePc,                 \* "idle" | "loop" | "done": position in process_valid_events
    pveCaller,             \* who called it: "_run_events_consumer" or "test"
    pveMessages,           \* the messages argument
    processed,             \* the local counter processed
    errors,                \* the local counter errors
    attempts,              \* the messages attempted so far, with their outcome
    handed,                \* the dead-letter records passed to the handler by this call
    pveBatches,            \* number of process_valid_events calls so far
    \* ---- StreamingPipeline: lifecycle and threads (pipeline.py) ----
    is_running,            \* self.is_running
    shutdown_event,        \* self.shutdown_event.is_set()
    mainPc,                \* position of the owner of the pipeline in start() / stop()
    calls,                 \* number of start() and stop() calls made by the owner
    stops,                 \* number of stop() calls that have returned
    closed,                \* the components closed by the current or last stop()
    pc,                    \* position of each of the four threads
    reg,                   \* per thread: the counter value read by a pending +=, else 0
    iters,                 \* iterations begun by the four loops together
    increments,            \* per shared counter: the sum of the amounts of the completed +=
    inSink,                \* the tasks executing inside self.sink_writer
    inHandler,             \* the tasks executing inside self.dead_letter_handler
    eventsOffset,          \* records of the events topic already consumed
    \* ---- PipelineHealthChecker (pipeline.py) ----
    health_status,         \* self.health_status: the stored snapshot
    last_check,            \* self.last_check, as the number of snapshots taken
    hcComponents,          \* the components argument of the last check_overall_health call
    lastHealth,            \* the last check_*_health call made directly: component and result
    \* ---- PipelineMetrics read by get_metrics (pipeline.py) ----
    lastMetrics,           \* the rates of the last get_metrics call
    \* ---- the consumer group's offsets at the broker ----
    committed,             \* per consumer: the number of records whose offset is committed
    \* ---- EventTransformer (transform.py) ----
    trResult               \* the last transform_user_event call: its event and its outcome

sinkVars == <<batch_size, current_batch, file_count, total_events_written, files,
              addCalls, autoFlushes, onlyAdds, lastOp, lastRet, lastWrite>>

consumerVars == <<cbPc, cbBatchSizeArg, cbTimeoutArg, messages, elapsed, pollLog, cbRet>>

deadLetterVars == <<dlEvent, dlAnalysis, dlAnalyzed>>

handlerVars == <<processed_count, error_count, dead_letter_files, hGiven, hEvent, hRet,
                 handlerCalls>>

producerVars == <<events_topic, dead_letter_topic, producer_event_count,
                  producer_error_count, producerRet, dlOffset>>

pveVars == <<pvePc, pveCaller, pveMessages, processed, errors, attempts, handed, pveBatches>>

recordVars == <<handlerVars, producerVars, metrics, pveVars>>

lifecycleVars == <<is_running, shutdown_event, mainPc, calls, stops, closed>>

threadVars == <<pc, reg, iters, increments, inSink, inHandler, eventsOffset>>

pipelineVars == <<lifecycleVars, threadVars>>

healthVars == <<health_status, last_check, hcComponents, lastHealth>>

metricsVars == <<lastMetrics>>

commitVars == <<committed>>

transformVars == <<trResult>>

otherVars == <<healthVars, metricsVars, commitVars, transformVars>>

vars == <<sinkVars, consumerVars, deadLetterVars, recordVars, pipelineVars, otherVars>>

----------------------------------------------------------------------------
\* Bounds of the model
MaxBatchSize == 3      \* largest batch_size passed to the constructor
MaxAdds == 4           \* add_event calls per behaviour
MaxCount == 5          \* largest batch_size passed to consume_batch
MaxWait == 3           \* largest timeout passed to consume_batch, in ticks
MaxMessages == 5       \* messages the broker delivers to one consume_batch call
MaxHandlerCalls == 2   \* calls of the dead-letter handler by its direct callers per behaviour
MaxProduced == 2       \* process_event calls of the producer per behaviour
MaxBatchLen == 2       \* messages passed to one process_valid_events call
MaxBatches == 2        \* process_valid_events calls per behaviour
MaxLifecycleCalls == 2 \* start() and stop() calls made by the owner of the pipeline
MaxIterations == 3     \* iterations begun by the four loops together per behaviour
MaxPolled == 1         \* records returned by one consume_batch call of the pipeline
MaxSuccesses == 9      \* largest success counter of a component given to a health check
MaxErrors == 2         \* largest error counter of a component given to a health check
MaxHealthChecks == 2   \* check_overall_health calls per behaviour
MaxMetric == 2         \* largest value assigned to a field of the metrics
MaxClock == 2          \* latest time at which transform_user_event is called
MaxSmallAmount == 1    \* largest amount, in cents, besides 99.99

\* Program constants
BATCH_SIZE == 100              \* config.py
BATCH_TIMEOUT_SECONDS == 30    \* config.py
TicksPerSecond == 10           \* one tick is the poll timeout of consume_batch, 0.1 s

None == [k |-> "null", v |-> 0]

\* An integer argument that is omitted or None.
NoArg == -1

\* Python's `x or default` for an integer argument: None and 0 are falsy.
OrDefault(x, default) == IF x = NoArg \/ x = 0 THEN default ELSE x

----------------------------------------------------------------------------
\* Values of event fields.  A value is [k |-> kind, v |-> payload]; the
\* payload is a natural number: 0/1 for a bool, n for an int, hundredths
\* for a float, an index for a string, a dict or a list.
B(b) == [k |-> "bool", v |-> b]
I(n) == [k |-> "int", v |-> n]
F(n) == [k |-> "float", v |-> n]
S(n) == [k |-> "str", v |-> n]
D(n) == [k |-> "dict", v |-> n]
L(n) == [k |-> "list", v |-> n]

\* The dict with index 0 is the empty dict {}; the others have entries.
EmptyDict == D(0)

\* The events handed to the sink (dictionaries field name -> value).
Events ==
    { [event_id |-> S(1), is_conversion |-> B(0), revenue |-> F(9999)],
      [event_id |-> S(2), revenue |-> I(5), country_code |-> None],
      [event_id |-> S(3), user_agent_parsed |-> D(1)] }

\* isinstance(value, t) for the types tested by _infer_pyarrow_type; in
\* Python bool is a subclass of int.
IsInstance(value, t) ==
    \/ value.k = t
    \/ t = "int" /\ value.k = "bool"

\* non_null_values[0]: the first value of the column that is not None.
RECURSIVE FirstNonNull(_)
FirstNonNull(values) ==
    IF values = <<>> THEN None
    ELSE IF Head(values) # None THEN Head(values)
    ELSE FirstNonNull(Tail(values))

\* _infer_pyarrow_type sampling the last non-null value of the column.
InferPyarrowType_LastValue(values) ==
    IF \A i \in 1..Len(values) : values[i] = None THEN "null"
    ELSE LET last == CHOOSE i \in 1..Len(values) :
                         /\ values[i] # None
                         /\ \A j \in (i + 1)..Len(values) : values[j] = None
             sample_value == values[last] IN
         IF IsInstance(sample_value, "bool") THEN "bool"
         ELSE IF IsInstance(sample_value, "int") THEN "int64"
         ELSE IF IsInstance(sample_value, "float") THEN "float64"
         ELSE IF IsInstance(sample_value, "str") THEN "string"
         ELSE IF IsInstance(sample_value, "dict") THEN "struct<>"
         ELSE IF IsInstance(sample_value, "list") THEN "list<string>"
         ELSE "string"

\* ParquetSinkWriter._infer_pyarrow_type
InferPyarrowType(values) ==
    IF \A i \in 1..Len(values) : values[i] = None THEN "null"
    ELSE LET sample_value == FirstNonNull(values) IN
         IF IsInstance(sample_value, "bool") THEN "bool"
         ELSE IF IsInstance(sample_value, "int") THEN "int64"
         ELSE IF IsInstance(sample_value, "float") THEN "float64"
         ELSE IF IsInstance(sample_value, "str") THEN "string"
         ELSE IF IsInstance(sample_value, "dict") THEN "struct<>"
         ELSE IF IsInstance(sample_value, "list") THEN "list<string>"
         ELSE "string"

\* pa.array(values, type=pa_type), one value: whether the value converts
\* to the column type.  None converts to a null of every type; an int
\* widens to float64; everything else has to be of the column's own kind.
Convertible(value, pa_type) ==
    \/ value = None
    \/ pa_type = "bool" /\ value.k = "bool"
    \/ pa_type = "int64" /\ value.k = "int"
    \/ pa_type = "float64" /\ value.k \in {"float", "int"}
    \/ pa_type = "string" /\ value.k = "str"
    \/ pa_type = "struct<>" /\ value.k = "dict"
    \/ pa_type = "list<string>" /\ value.k = "list"

\* pa.array(values, type=pa_type), one value: the value the column holds.
\* pa.struct([]) declares no child field, so a dict is stored as a struct
\* without fields.
Convert(value, pa_type) ==
    IF value = None THEN None
    ELSE IF pa_type = "float64" /\ value.k = "int" THEN F(value.v * 100)
    ELSE IF pa_type = "struct<>" THEN EmptyDict
    ELSE value

\* event.get(key)
Get(event, key) == IF key \in DOMAIN event THEN event[key] ELSE None

\* all_keys of _batch_to_table: the union of the keys of all events.
AllKeys(events) == UNION { DOMAIN events[i] : i \in 1..Len(events) }

\* columns[key] of _batch_to_table: event.get(key) for every event, in order.
Column(events, key) == [i \in 1..Len(events) |-> Get(events[i], key)]

\* ParquetSinkWriter._batch_to_table: ok is FALSE when pa.array raises.
BatchToTable(events) ==
    LET all_keys == AllKeys(events)
        pa_type == [key \in all_keys |-> InferPyarrowType(Column(events, key))]
    IN  [ok |-> \A key \in all_keys : \A i \in 1..Len(events) :
                   Convertible(Get(events[i], key), pa_type[key]),
         names |-> all_keys,
         type |-> pa_type,
         num_rows |-> Len(events),
         col |-> [key \in all_keys |->
                    [i \in 1..Len(events) |-> Convert(Get(events[i], key), pa_type[key])]]]

\* The events of a buffer of records.
EventsOf(batch) == [i \in 1..Len(batch) |-> batch[i].ev]
IdsOf(batch) == [i \in 1..Len(batch) |-> batch[i].id]

----------------------------------------------------------------------------
\* flush_batch with the buffer cleared before the write is known to succeed.
FlushBatch_ClearsOnFailure(w, diskOk) ==
    IF w.current_batch = <<>> THEN
        [w |-> w, ret |-> TRUE, write |-> "none"]
    ELSE LET table == BatchToTable(EventsOf(w.current_batch)) IN
         IF table.ok /\ diskOk THEN
            [w |-> [current_batch |-> <<>>,
                    total_events_written |-> w.total_events_written + Len(w.current_batch),
                    file_count |-> w.file_count + 1,
                    files |-> Append(w.files, [records |-> w.current_batch, table |-> table])],
             ret |-> TRUE, write |-> "ok"]
         ELSE
            [w |-> [w EXCEPT !.current_batch = <<>>], ret |-> FALSE, write |-> "fail"]

\* flush_batch that appends to the file written last instead of creating one.
FlushBatch_AppendsToFile(w, diskOk) ==
    IF w.current_batch = <<>> THEN
        [w |-> w, ret |-> TRUE, write |-> "none"]
    ELSE LET table == BatchToTable(EventsOf(w.current_batch)) IN
         IF table.ok /\ diskOk THEN
            [w |-> [current_batch |-> <<>>,
                    total_events_written |-> w.total_events_written + Len(w.current_batch),
                    file_count |-> IF w.files = <<>> THEN 1 ELSE w.file_count,
                    files |-> IF w.files = <<>>
                              THEN <<[records |-> w.current_batch, table |-> table]>>
                              ELSE [w.files EXCEPT ![Len(w.files)] =
                                      [records |-> @.records \o w.current_batch,
                                       table |-> BatchToTable(EventsOf(@.records \o w.current_batch))]]],
             ret |-> TRUE, write |-> "ok"]
         ELSE
            [w |-> w, ret |-> FALSE, write |-> "fail"]

\* flush_batch that puts every buffered record into the file twice.
FlushBatch_WritesTwice(w, diskOk) ==
    IF w.current_batch = <<>> THEN
        [w |-> w, ret |-> TRUE, write |-> "none"]
    ELSE LET table == BatchToTable(EventsOf(w.current_batch)) IN
         IF table.ok /\ diskOk THEN
            [w |-> [current_batch |-> <<>>,
                    total_events_written |-> w.total_events_written + Len(w.current_batch),
                    file_count |-> w.file_count + 1,
                    files |-> Append(w.files, [records |-> w.current_batch \o w.current_batch,
                                               table |-> table])],
             ret |-> TRUE, write |-> "ok"]
         ELSE
            [w |-> w, ret |-> FALSE, write |-> "fail"]

\* flush_batch that does not clear the batch after a successful write.
FlushBatch_KeepsBuffer(w, diskOk) ==
    IF w.current_batch = <<>> THEN
        [w |-> w, ret |-> TRUE, write |-> "none"]
    ELSE LET table == BatchToTable(EventsOf(w.current_batch)) IN
         IF table.ok /\ diskOk THEN
            [w |-> [current_batch |-> w.current_batch,
                    total_events_written |-> w.total_events_written + Len(w.current_batch),
                    file_count |-> w.file_count + 1,
                    files |-> Append(w.files, [records |-> w.current_batch, table |-> table])],
             ret |-> TRUE, write |-> "ok"]
         ELSE
            [w |-> w, ret |-> FALSE, write |-> "fail"]

\* ParquetSinkWriter.flush_batch on the writer state w; diskOk says whether
\* pq.write_table succeeds.  Returns the new writer state, the return value
\* and the write that was attempted.
FlushBatch(w, diskOk) ==
    IF w.current_batch = <<>> THEN
        [w |-> w, ret |-> TRUE, write |-> "none"]
    ELSE LET table == BatchToTable(EventsOf(w.current_batch)) IN
         IF table.ok /\ diskOk THEN
            [w |-> [current_batch |-> <<>>,
                    total_events_written |-> w.total_events_written + Len(w.current_batch),
                    file_count |-> w.file_count + 1,
                    files |-> Append(w.files, [records |-> w.current_batch, table |-> table])],
             ret |-> TRUE, write |-> "ok"]
         ELSE
            [w |-> w, ret |-> FALSE, write |-> "fail"]

\* The batch-full test with == instead of >=.
BatchIsFull_Exact(batch) == Len(batch) = batch_size

\* The batch-full test with > instead of >=.
BatchIsFull_Strict(batch) == Len(batch) > batch_size

\* len(self.current_batch) >= self.batch_size
BatchIsFull(batch) == Len(batch) >= batch_size

\* The writer's mutable fields as one record.
Writer ==
    [current_batch |-> current_batch, total_events_written |-> total_events_written,
     file_count |-> file_count, files |-> files]

SetWriter(w) ==
    /\ current_batch' = w.current_batch
    /\ total_events_written' = w.total_events_written
    /\ file_count' = w.file_count
    /\ files' = w.files

\* ParquetSinkWriter.add_event: append, flush when the batch is full, and
\* return True whatever flush_batch returned.
add_event(event, diskOk) ==
    /\ addCalls < MaxAdds
    /\ LET appended == [Writer EXCEPT !.current_batch =
                            Append(current_batch, [id |-> addCalls + 1, ev |-> event])]
           full == BatchIsFull(appended.current_batch)
           r == IF full THEN FlushBatch(appended, diskOk)
                ELSE [w |-> appended, ret |-> TRUE, write |-> "none"]
       IN  /\ SetWriter(r.w)
           /\ autoFlushes' = IF full THEN autoFlushes + 1 ELSE autoFlushes
           /\ lastWrite' = r.write
    /\ addCalls' = addCalls + 1
    /\ lastOp' = "add_event"
    /\ lastRet' = TRUE
    /\ UNCHANGED <<batch_size, onlyAdds>>
    /\ UNCHANGED <<otherVars, consumerVars, deadLetterVars, recordVars, pipelineVars>>

\* ParquetSinkWriter.flush_batch called by the owner of the writer.
flush_batch(diskOk) ==
    /\ LET r == FlushBatch(Writer, diskOk)
       IN  /\ SetWriter(r.w)
           /\ lastRet' = r.ret
           /\ lastWrite' = r.write
    /\ lastOp' = "flush_batch"
    /\ onlyAdds' = FALSE
    /\ UNCHANGED <<batch_size, addCalls, autoFlushes>>
    /\ UNCHANGED <<otherVars, consumerVars, deadLetterVars, recordVars, pipelineVars>>

\* close that never flushes.
CloseFlushes_Never(batch) == FALSE

\* if self.current_batch: of close
CloseFlushes(batch) == batch # <<>>

\* ParquetSinkWriter.close: flush what is left and return True whatever
\* flush_batch returned.
close(diskOk) ==
    /\ LET r == IF CloseFlushes(current_batch) THEN FlushBatch(Writer, diskOk)
                ELSE [w |-> Writer, ret |-> TRUE, write |-> "none"]
       IN  /\ SetWriter(r.w)
           /\ lastWrite' = r.write
    /\ lastOp' = "close"
    /\ lastRet' = TRUE
    /\ onlyAdds' = FALSE
    /\ UNCHANGED <<batch_size, addCalls, autoFlushes>>
    /\ UNCHANGED <<otherVars, consumerVars, deadLetterVars, recordVars, pipelineVars>>

\* ParquetSinkWriter.get_stats of the writer state w: the keys the writer
\* exposes.
GetStats(w) ==
    [total_events_written |-> w.total_events_written,
     files_written |-> w.file_count,
     current_batch_size |-> Len(w.current_batch)]

get_stats == GetStats(Writer)

\* ParquetSinkWriter.__init__
InitSink ==
    /\ batch_size \in { OrDefault(arg, BATCH_SIZE) : arg \in {NoArg} \cup 0..MaxBatchSize }
    /\ current_batch = <<>>
    /\ file_count = 0
    /\ total_events_written = 0
    /\ files = <<>>
    /\ addCalls = 0
    /\ autoFlushes = 0
    /\ onlyAdds = TRUE
    /\ lastOp = "init"
    /\ lastRet = TRUE
    /\ lastWrite = "none"

----------------------------------------------------------------------------
\* EventConsumer.consume_batch

\* consume_message returns None
NoMessage == 0

\* What consumer.poll hands to consume_message: a record, nothing within
\* the timeout, a message carrying a broker error, a payload that is not
\* JSON.
PollOutcomes == {"event", "none", "error", "badjson"}

\* consume_message handing on the payload it could not parse instead of
\* returning None.
ConsumeMessage_ReturnsRawPayload(outcome, seqno) ==
    IF outcome \in {"event", "badjson"} THEN seqno ELSE NoMessage

\* EventConsumer.consume_message: the parsed record (here its sequence
\* number in the call), or None for every other outcome of the poll.
ConsumeMessage(outcome, seqno) ==
    IF outcome = "event" THEN seqno ELSE NoMessage

\* batch_size = batch_size or BATCH_SIZE
EffectiveBatchSize(arg) == OrDefault(arg, BATCH_SIZE)

\* timeout = timeout or BATCH_TIMEOUT_SECONDS
EffectiveTimeout(arg) == OrDefault(arg, BATCH_TIMEOUT_SECONDS * TicksPerSecond)

\* len(messages) < batch_size and (time.time() - start_time) < timeout
LoopCondition(msgs, now, sizeArg, timeoutArg) ==
    Len(msgs) < EffectiveBatchSize(sizeArg) /\ now < EffectiveTimeout(timeoutArg)

\* The records delivered by the polls of the call, in poll order.
Delivered(log) ==
    LET got == SelectSeq(log, LAMBDA p : p.msg # NoMessage)
    IN  [i \in 1..Len(got) |-> got[i].msg]

\* The number of records the broker has handed out in this call.
EventsPolled == Len(Delivered(pollLog))

\* consume_batch is called: messages = [], start_time = time.time()
consume_batch_call(sizeArg, timeoutArg) ==
    /\ cbPc \in {"idle", "done"}
    /\ cbPc' = "loop"
    /\ cbBatchSizeArg' = sizeArg
    /\ cbTimeoutArg' = timeoutArg
    /\ messages' = <<>>
    /\ elapsed' = 0
    /\ pollLog' = <<>>
    /\ cbRet' = <<>>
    /\ UNCHANGED <<otherVars, sinkVars, deadLetterVars, recordVars, pipelineVars>>

\* One iteration of the while loop: consume_message(timeout=0.1), then
\* append or break.  The poll takes dt ticks; a poll that times out takes
\* the whole poll timeout.
consume_batch_poll(outcome, dt) ==
    /\ cbPc = "loop"
    /\ LoopCondition(messages, elapsed, cbBatchSizeArg, cbTimeoutArg)
    /\ outcome = "event" => EventsPolled < MaxMessages
    /\ outcome = "none" => dt = 1
    /\ LET message == ConsumeMessage(outcome, Len(pollLog) + 1) IN
       /\ pollLog' = Append(pollLog, [outcome |-> outcome, msg |-> message, at |-> elapsed])
       /\ elapsed' = elapsed + dt
       /\ IF message # NoMessage
          THEN /\ messages' = Append(messages, message)
               /\ cbPc' = "loop"
               /\ cbRet' = cbRet
          ELSE /\ messages' = messages
               /\ cbPc' = "done"
               /\ cbRet' = messages
    /\ UNCHANGED <<cbBatchSizeArg, cbTimeoutArg>>
    /\ UNCHANGED <<otherVars, sinkVars, deadLetterVars, recordVars, pipelineVars>>

\* The while condition is false: return messages.
consume_batch_return ==
    /\ cbPc = "loop"
    /\ ~LoopCondition(messages, elapsed, cbBatchSizeArg, cbTimeoutArg)
    /\ cbPc' = "done"
    /\ cbRet' = messages
    /\ UNCHANGED <<cbBatchSizeArg, cbTimeoutArg, messages, elapsed, pollLog>>
    /\ UNCHANGED <<otherVars, sinkVars, deadLetterVars, recordVars, pipelineVars>>

\* EventConsumer.__init__: no call of consume_batch yet.
InitConsumer ==
    /\ cbPc = "idle"
    /\ cbBatchSizeArg = NoArg
    /\ cbTimeoutArg = NoArg
    /\ messages = <<>>
    /\ elapsed = 0
    /\ pollLog = <<>>
    /\ cbRet = <<>>

----------------------------------------------------------------------------
\* DeadLetterHandler: error analysis.  A text is the sequence of its
\* characters.

UpperCase == <<"A", "B", "C", "D", "E", "F", "G", "H", "I", "J", "K", "L", "M", "N", "O", "P", "Q", "R", "S", "T", "U", "V", "W", "X", "Y", "Z">>
LowerCase == <<"a", "b", "c", "d", "e", "f", "g", "h", "i", "j", "k", "l", "m", "n", "o", "p", "q", "r", "s", "t", "u", "v", "w", "x", "y", "z">>

\* str.lower(), one character
LowerChar(c) ==
    IF \E i \in 1..26 : UpperCase[i] = c
    THEN LowerCase[CHOOSE i \in 1..26 : UpperCase[i] = c]
    ELSE c

\* str.lower()
Lower(text) == [i \in 1..Len(text) |-> LowerChar(text[i])]

\* sub in text
Contains(sub, text) ==
    \E i \in 1..(Len(text) - Len(sub) + 1) : SubSeq(text, i, i + Len(sub) - 1) = sub

\* The string literals of _categorize_error and _can_retry_event.
Kw_required == <<"r", "e", "q", "u", "i", "r", "e", "d">>
Kw_missing == <<"m", "i", "s", "s", "i", "n", "g">>
Kw_enum == <<"e", "n", "u", "m">>
Kw_not_one_of == <<"n", "o", "t", " ", "o", "n", "e", " ", "o", "f">>
Kw_type == <<"t", "y", "p", "e">>
Kw_connection == <<"c", "o", "n", "n", "e", "c", "t", "i", "o", "n">>
Kw_timeout == <<"t", "i", "m", "e", "o", "u", "t">>
Kw_disk == <<"d", "i", "s", "k">>
Kw_storage == <<"s", "t", "o", "r", "a", "g", "e">>
Kw_schema == <<"s", "c", "h", "e", "m", "a">>
Kw_TypeError == <<"T", "y", "p", "e", "E", "r", "r", "o", "r">>
Kw_ValidationError == <<"V", "a", "l", "i", "d", "a", "t", "i", "o", "n", "E", "r", "r", "o", "r">>

\* The error messages analysed: the messages used by the tests, and one
\* or two of the fragments below in every order.
Msg_MissingRequiredField == <<"M", "i", "s", "s", "i", "n", "g", " ", "r", "e", "q", "u", "i", "r", "e", "d", " ", "f", "i", "e", "l", "d", ":", " ", "e", "v", "e", "n", "t", "_", "t", "y", "p", "e">>
Msg_ConnectionTimeout == <<"C", "o", "n", "n", "e", "c", "t", "i", "o", "n", " ", "t", "i", "m", "e", "o", "u", "t">>
Msg_InvalidEventType == <<"I", "n", "v", "a", "l", "i", "d", " ", "e", "v", "e", "n", "t", " ", "t", "y", "p", "e">>
Msg_SchemaValidationFailed == <<"S", "c", "h", "e", "m", "a", " ", "v", "a", "l", "i", "d", "a", "t", "i", "o", "n", " ", "f", "a", "i", "l", "e", "d">>
Msg_FailedToParseUserAgent == <<"F", "a", "i", "l", "e", "d", " ", "t", "o", " ", "p", "a", "r", "s", "e", " ", "u", "s", "e", "r", " ", "a", "g", "e", "n", "t">>
Msg_Empty == <<>>
MessageFragments ==
    { <<"M", "i", "s", "s", "i", "n", "g">>,
      <<"R", "E", "Q", "U", "I", "R", "E", "D">>,
      <<"E", "n", "u", "m">>,
      <<"n", "o", "t", " ", "o", "n", "e", " ", "o", "f">>,
      <<"T", "y", "p", "e">>,
      <<"C", "o", "n", "n", "e", "c", "t", "i", "o", "n">>,
      <<"T", "i", "m", "e", "o", "u", "t">>,
      <<"d", "i", "s", "k">>,
      <<"S", "t", "o", "r", "a", "g", "e">>,
      <<"S", "c", "h", "e", "m", "a">>,
      <<"f", "a", "i", "l", "e", "d">>,
      <<"e", "v", "e", "n", "t", "_", "t", "y", "p", "e">> }
ErrorMessages ==
    { Msg_MissingRequiredField, Msg_ConnectionTimeout, Msg_InvalidEventType,
      Msg_SchemaValidationFailed, Msg_FailedToParseUserAgent, Msg_Empty }
    \cup MessageFragments
    \cup { f \o <<" ">> \o g : f \in MessageFragments, g \in MessageFragments }

\* The error types analysed (type(e).__name__ of the failure).
ErrorTypes ==
    { <<"V", "a", "l", "i", "d", "a", "t", "i", "o", "n", "E", "r", "r", "o", "r">>,
      <<"T", "y", "p", "e", "E", "r", "r", "o", "r">>,
      <<"t", "y", "p", "e", "e", "r", "r", "o", "r">>,
      <<"C", "o", "n", "n", "e", "c", "t", "i", "o", "n", "E", "r", "r", "o", "r">>,
      <<"T", "i", "m", "e", "o", "u", "t", "E", "r", "r", "o", "r">>,
      <<"D", "i", "s", "k", "F", "u", "l", "l", "E", "r", "r", "o", "r">>,
      <<"S", "t", "o", "r", "a", "g", "e", "E", "r", "r", "o", "r">>,
      <<"K", "e", "y", "E", "r", "r", "o", "r">>,
      <<"T", "r", "a", "n", "s", "f", "o", "r", "m", "a", "t", "i", "o", "n", "E", "r", "r", "o", "r">>,
      <<"r", "e", "q", "u", "i", "r", "e", "d">>,
      <<"U", "n", "k", "n", "o", "w", "n">> }

\* The processing stages analysed.
ProcessingStages ==
    { "producer_validation", "consumer_validation", "transformation", "sink_write",
      "events_consumer_processing", "Unknown" }

\* _categorize_error with the schema rule tested before the network rule.
CategorizeError_SchemaBeforeNetwork(error_type, error_message, stage) ==
    LET msg == Lower(error_message) IN
    IF Contains(Kw_required, msg) \/ Contains(Kw_missing, msg) THEN "missing_required_field"
    ELSE IF Contains(Kw_enum, msg) \/ Contains(Kw_not_one_of, msg) THEN "invalid_enum_value"
    ELSE IF Contains(Kw_type, msg) \/ Contains(Kw_TypeError, error_type) THEN "data_type_error"
    ELSE IF Contains(Kw_ValidationError, error_type) \/ Contains(Kw_schema, msg)
         THEN "schema_validation_error"
    ELSE IF Contains(Kw_connection, msg) \/ Contains(Kw_timeout, msg) THEN "network_error"
    ELSE IF Contains(Kw_disk, msg) \/ Contains(Kw_storage, msg) THEN "storage_error"
    ELSE IF stage = "producer_validation" THEN "producer_validation_error"
    ELSE IF stage = "consumer_validation" THEN "consumer_validation_error"
    ELSE IF stage = "transformation" THEN "transformation_error"
    ELSE IF stage = "sink_write" THEN "sink_write_error"
    ELSE "unknown_error"

\* DeadLetterHandler._categorize_error
CategorizeError(error_type, error_message, stage) ==
    LET msg == Lower(error_message) IN
    IF Contains(Kw_required, msg) \/ Contains(Kw_missing, msg) THEN "missing_required_field"
    ELSE IF Contains(Kw_enum, msg) \/ Contains(Kw_not_one_of, msg) THEN "invalid_enum_value"
    ELSE IF Contains(Kw_type, msg) \/ Contains(Kw_TypeError, error_type) THEN "data_type_error"
    ELSE IF Contains(Kw_connection, msg) \/ Contains(Kw_timeout, msg) THEN "network_error"
    ELSE IF Contains(Kw_disk, msg) \/ Contains(Kw_storage, msg) THEN "storage_error"
    ELSE IF Contains(Kw_ValidationError, error_type) \/ Contains(Kw_schema, msg)
         THEN "schema_validation_error"
    ELSE IF stage = "producer_validation" THEN "producer_validation_error"
    ELSE IF stage = "consumer_validation" THEN "consumer_validation_error"
    ELSE IF stage = "transformation" THEN "transformation_error"
    ELSE IF stage = "sink_write" THEN "sink_write_error"
    ELSE "unknown_error"

\* _can_retry_event without its transformation-stage rule.
CanRetryEvent_NoStageRule(error_type, stage) ==
    IF Contains(Kw_ValidationError, error_type) THEN FALSE
    ELSE IF Contains(Kw_TypeError, error_type) THEN FALSE
    ELSE IF Contains(Kw_required, error_type) THEN FALSE
    ELSE IF Contains(Kw_connection, Lower(error_type)) \/ Contains(Kw_timeout, Lower(error_type))
         THEN TRUE
    ELSE IF Contains(Kw_storage, Lower(error_type)) \/ Contains(Kw_disk, Lower(error_type))
         THEN TRUE
    ELSE FALSE

\* DeadLetterHandler._can_retry_event
CanRetryEvent(error_type, stage) ==
    IF Contains(Kw_ValidationError, error_type) THEN FALSE
    ELSE IF Contains(Kw_TypeError, error_type) THEN FALSE
    ELSE IF Contains(Kw_required, error_type) THEN FALSE
    ELSE IF Contains(Kw_connection, Lower(error_type)) \/ Contains(Kw_timeout, Lower(error_type))
         THEN TRUE
    ELSE IF Contains(Kw_storage, Lower(error_type)) \/ Contains(Kw_disk, Lower(error_type))
         THEN TRUE
    ELSE IF stage = "transformation" THEN TRUE
    ELSE FALSE

\* The categories of the suggestions table of _suggest_remediation.
RemediationCategories ==
    { "schema_validation_error", "data_type_error", "missing_required_field",
      "invalid_enum_value", "network_error", "storage_error",
      "producer_validation_error", "consumer_validation_error",
      "transformation_error", "sink_write_error", "unknown_error" }

\* DeadLetterHandler._suggest_remediation: the suggestion of the category,
\* named here by the category, or the default one.
SuggestRemediation(error_category, stage) ==
    IF error_category \in RemediationCategories THEN error_category ELSE "unknown_error"

\* DeadLetterHandler._analyze_error
AnalyzeError(event) ==
    LET error_category ==
            CategorizeError(event.error_type, event.error_message, event.processing_stage)
    IN  [error_category |-> error_category,
         can_retry |-> CanRetryEvent(event.error_type, event.processing_stage),
         remediation_suggestion |-> SuggestRemediation(error_category, event.processing_stage)]

\* The handler analyses one dead-letter record.
analyze_error(error_type, error_message, stage) ==
    /\ ~dlAnalyzed
    /\ dlEvent' = [error_type |-> error_type, error_message |-> error_message,
                   processing_stage |-> stage]
    /\ dlAnalysis' = AnalyzeError(dlEvent')
    /\ dlAnalyzed' = TRUE
    /\ UNCHANGED <<otherVars, sinkVars, consumerVars, recordVars, pipelineVars>>

\* No record is held by the handler.
NoEvent == [error_type |-> <<>>, error_message |-> <<>>, processing_stage |-> "Unknown"]
NoAnalysis ==
    [error_category |-> "unknown_error", can_retry |-> FALSE,
     remediation_suggestion |-> "unknown_error"]

\* The analysis has been handed to the caller; the handler holds no record.
analysis_returned ==
    /\ dlAnalyzed
    /\ dlEvent' = NoEvent
    /\ dlAnalysis' = NoAnalysis
    /\ dlAnalyzed' = FALSE
    /\ UNCHANGED <<otherVars, sinkVars, consumerVars, recordVars, pipelineVars>>

\* DeadLetterHandler.__init__: nothing analysed yet.
InitDeadLetter ==
    /\ dlEvent = NoEvent
    /\ dlAnalysis = NoAnalysis
    /\ dlAnalyzed = FALSE

----------------------------------------------------------------------------
\* DeadLetterHandler.process_dead_letter_event

Type_validation_error ==
    <<"v", "a", "l", "i", "d", "a", "t", "i", "o", "n", "_", "e", "r", "r", "o", "r">>
Type_KeyError == <<"K", "e", "y", "E", "r", "r", "o", "r">>
Type_ConnectionError ==
    <<"C", "o", "n", "n", "e", "c", "t", "i", "o", "n", "E", "r", "r", "o", "r">>

\* A str value and a dict value of a dead-letter record's error_message;
\* of the dict only its 'error_message' entry is kept.
Str(text) == [k |-> "str", v |-> text]
Dict(text) == [k |-> "dict", v |-> text]

\* A dead-letter record as its producers build it; failed_at, a timestamp
\* no code path reads, is left out.
DeadLetterRecord(original_event, error_type, error_message, processing_stage) ==
    [original_event |-> original_event, error_type |-> error_type,
     error_message |-> error_message, processing_stage |-> processing_stage]

\* d[key] = value on a dict
WithKey(d, key, value) ==
    [k \in DOMAIN d \cup {key} |-> IF k = key THEN value ELSE d[k]]

\* format_error_message (utils.py): a dict, never a str.
FormatErrorMessage(error) == Dict(error.message)

\* The handler's mutable fields and its output directory as one record.
Handler ==
    [processed_count |-> processed_count, error_count |-> error_count,
     files |-> dead_letter_files]

\* error_message.lower() of _categorize_error raises AttributeError on a
\* value that is not a str.
AnalysisRaises(event) == event.error_message.k # "str"

\* The dict returned by _analyze_error, analyzed_at included.
ErrorAnalysis(event, now) ==
    WithKey(AnalyzeError([error_type |-> event.error_type,
                          error_message |-> event.error_message.v,
                          processing_stage |-> event.processing_stage]),
            "analyzed_at", now)

\* process_dead_letter_event with the analysis attached to the caller's
\* dict before the write is attempted.
ProcessDeadLetterEvent_AttachesBeforeWrite(h, event, valid, writeOk, now) ==
    IF ~valid \/ AnalysisRaises(event)
    THEN [h |-> [h EXCEPT !.error_count = @ + 1], event |-> event, ret |-> FALSE]
    ELSE LET error_analysis == ErrorAnalysis(event, now)
             validated_event == WithKey(event, "error_analysis", error_analysis)
         IN  IF writeOk
             THEN [h |-> [h EXCEPT !.processed_count = @ + 1,
                                   !.files = Append(@, validated_event)],
                   event |-> validated_event, ret |-> TRUE]
             ELSE [h |-> [h EXCEPT !.error_count = @ + 1],
                   event |-> validated_event, ret |-> FALSE]

\* process_dead_letter_event with a failed file write left uncounted.
ProcessDeadLetterEvent_UncountedWriteFailure(h, event, valid, writeOk, now) ==
    IF ~valid \/ AnalysisRaises(event)
    THEN [h |-> [h EXCEPT !.error_count = @ + 1], event |-> event, ret |-> FALSE]
    ELSE LET error_analysis == ErrorAnalysis(event, now)
             validated_event == WithKey(event, "error_analysis", error_analysis)
         IN  IF writeOk
             THEN [h |-> [h EXCEPT !.processed_count = @ + 1,
                                   !.files = Append(@, validated_event)],
                   event |-> WithKey(event, "error_analysis", error_analysis),
                   ret |-> TRUE]
             ELSE [h |-> h, event |-> event, ret |-> FALSE]

\* process_dead_letter_event counting the record as processed before the
\* write is known to have succeeded.
ProcessDeadLetterEvent_CountsBeforeWrite(h, event, valid, writeOk, now) ==
    IF ~valid \/ AnalysisRaises(event)
    THEN [h |-> [h EXCEPT !.error_count = @ + 1], event |-> event, ret |-> FALSE]
    ELSE LET error_analysis == ErrorAnalysis(event, now)
             validated_event == WithKey(event, "error_analysis", error_analysis)
         IN  IF writeOk
             THEN [h |-> [h EXCEPT !.processed_count = @ + 1,
                                   !.files = Append(@, validated_event)],
                   event |-> WithKey(event, "error_analysis", error_analysis),
                   ret |-> TRUE]
             ELSE [h |-> [h EXCEPT !.processed_count = @ + 1, !.error_count = @ + 1],
                   event |-> event, ret |-> FALSE]

\* DeadLetterHandler.process_dead_letter_event on the handler h: valid is
\* the outcome of validate_dead_letter_event, writeOk that of the file
\* write.  The validated event is a copy of the caller's dict, which gets
\* the analysis only after a successful write.
ProcessDeadLetterEvent(h, event, valid, writeOk, now) ==
    IF ~valid \/ AnalysisRaises(event)
    THEN [h |-> [h EXCEPT !.error_count = @ + 1], event |-> event, ret |-> FALSE]
    ELSE LET error_analysis == ErrorAnalysis(event, now)
             validated_event == WithKey(event, "error_analysis", error_analysis)
         IN  IF writeOk
             THEN [h |-> [h EXCEPT !.processed_count = @ + 1,
                                   !.files = Append(@, validated_event)],
                   event |-> WithKey(event, "error_analysis", error_analysis),
                   ret |-> TRUE]
             ELSE [h |-> [h EXCEPT !.error_count = @ + 1], event |-> event, ret |-> FALSE]

\* The state left by one call of the handler.
SetHandler(r, event) ==
    /\ processed_count' = r.h.processed_count
    /\ error_count' = r.h.error_count
    /\ dead_letter_files' = r.h.files
    /\ hGiven' = event
    /\ hEvent' = r.event
    /\ hRet' = r.ret
    /\ handlerCalls' = handlerCalls + 1

\* The dead-letter records handed to the handler by its direct callers:
\* fresh ones, and ones that carry the error_analysis of an earlier call.
HandlerEvents ==
    LET fresh ==
          { DeadLetterRecord(1, error_type, error_message, "transformation") :
              error_type \in {Kw_ValidationError, Type_ConnectionError},
              error_message \in {Str(Msg_ConnectionTimeout), Dict(Msg_FailedToParseUserAgent)} }
    IN  fresh \cup { WithKey(e, "error_analysis", ErrorAnalysis(e, 0)) :
                       e \in { f \in fresh : ~AnalysisRaises(f) } }

\* A caller hands one dead-letter record to the handler.
process_dead_letter_event(event, valid, writeOk) ==
    /\ handlerCalls < MaxHandlerCalls
    /\ pvePc # "loop"
    /\ SetHandler(ProcessDeadLetterEvent(Handler, event, valid, writeOk, handlerCalls + 1), event)
    /\ UNCHANGED <<otherVars, sinkVars, consumerVars, deadLetterVars, producerVars, metrics, pveVars, pipelineVars>>

\* No dead-letter record.
NoRecord == DeadLetterRecord(0, <<>>, Str(<<>>), "Unknown")

\* DeadLetterHandler.__init__
InitHandler ==
    /\ processed_count = 0
    /\ error_count = 0
    /\ dead_letter_files = <<>>
    /\ hGiven = NoRecord
    /\ hEvent = NoRecord
    /\ hRet = FALSE
    /\ handlerCalls = 0

----------------------------------------------------------------------------
\* EventProducer.process_event and StreamingPipeline._run_producer

\* EventProducer.process_event for the event numbered id: is_valid and
\* error_message are what validate_event returned, produceOk tells whether
\* producer.produce accepted the message (it raises otherwise).  An invalid
\* event whose publication raises is counted by both error branches.
ProcessEvent(p, id, is_valid, error_message, produceOk) ==
    IF ~is_valid
    THEN IF produceOk
         THEN [p EXCEPT !.error_count = @ + 1,
                        !.dead_letter_topic =
                            Append(@, DeadLetterRecord(id, Type_validation_error,
                                                       Str(error_message), "producer_validation")),
                        !.ret = FALSE]
         ELSE [p EXCEPT !.error_count = @ + 2, !.ret = FALSE]
    ELSE IF produceOk
         THEN [p EXCEPT !.events_topic = Append(@, id), !.event_count = @ + 1, !.ret = TRUE]
         ELSE [p EXCEPT !.error_count = @ + 1, !.ret = FALSE]

\* The producer's fields and the two topics as one record.
Producer ==
    [events_topic |-> events_topic, dead_letter_topic |-> dead_letter_topic,
     event_count |-> producer_event_count, error_count |-> producer_error_count,
     ret |-> producerRet]

\* One iteration of the loop of _run_producer: process one generated event
\* and count it.
run_producer_iteration(is_valid, error_message, produceOk) ==
    /\ producer_event_count + producer_error_count < MaxProduced
    /\ LET id == Len(events_topic) + Len(dead_letter_topic) + producer_error_count + 1
           p == ProcessEvent(Producer, id, is_valid, error_message, produceOk)
       IN  /\ events_topic' = p.events_topic
           /\ dead_letter_topic' = p.dead_letter_topic
           /\ producer_event_count' = p.event_count
           /\ producer_error_count' = p.error_count
           /\ producerRet' = p.ret
           /\ metrics' = IF p.ret THEN [metrics EXCEPT !.events_produced = @ + 1]
                         ELSE [metrics EXCEPT !.errors = @ + 1]
    /\ UNCHANGED dlOffset
    /\ UNCHANGED <<otherVars, sinkVars, consumerVars, deadLetterVars, handlerVars, pveVars, pipelineVars>>

\* One iteration of the loop of _run_dead_letter_consumer that received a
\* message: StreamingPipeline.process_dead_letter_event hands it to the
\* handler, whatever it returns the two counters go up.
run_dead_letter_consumer_iteration(valid, writeOk) ==
    /\ dlOffset < Len(dead_letter_topic)
    /\ handlerCalls < MaxHandlerCalls
    /\ pvePc # "loop"
    /\ LET message == dead_letter_topic[dlOffset + 1]
       IN  SetHandler(ProcessDeadLetterEvent(Handler, message, valid, writeOk, handlerCalls + 1),
                      message)
    /\ dlOffset' = dlOffset + 1
    /\ metrics' = [metrics EXCEPT !.dead_letter_events = @ + 1,
                                  !.dead_letter_events_consumed = @ + 1]
    /\ UNCHANGED <<events_topic, dead_letter_topic, producer_event_count,
                   producer_error_count, producerRet>>
    /\ UNCHANGED <<otherVars, sinkVars, consumerVars, deadLetterVars, pveVars, pipelineVars>>

\* PipelineMetrics as constructed: every counter 0.
InitMetrics ==
    metrics = [events_produced |-> 0, events_consumed |-> 0, valid_events_consumed |-> 0,
               dead_letter_events_consumed |-> 0, events_transformed |-> 0,
               events_written |-> 0, dead_letter_events |-> 0, errors |-> 0,
               batches_processed |-> 0]

\* EventProducer.__init__ and the empty topics
InitProducer ==
    /\ events_topic = <<>>
    /\ dead_letter_topic = <<>>
    /\ producer_event_count = 0
    /\ producer_error_count = 0
    /\ producerRet = FALSE
    /\ dlOffset = 0

----------------------------------------------------------------------------
\* StreamingPipeline.process_valid_events

\* transform_user_event returned normally.
NoError == [type |-> <<>>, message |-> <<>>]

\* The exceptions transform_user_event raises.
TransformErrors ==
    { [type |-> Type_KeyError, message |-> Msg_FailedToParseUserAgent],
      [type |-> Kw_ValidationError, message |-> Msg_SchemaValidationFailed] }

\* ParquetSinkWriter.add_event on the writer w: False when the append
\* raises, else the record is buffered, a full batch is flushed and the
\* result is True.
AddEvent(w, rec, appendOk, diskOk) ==
    IF ~appendOk THEN [w |-> w, ret |-> FALSE]
    ELSE LET appended == [w EXCEPT !.current_batch = Append(@, rec)]
         IN  IF BatchIsFull(appended.current_batch)
             THEN [w |-> FlushBatch(appended, diskOk).w, ret |-> TRUE]
             ELSE [w |-> appended, ret |-> TRUE]

\* The dead-letter record process_valid_events builds for a message.
ConsumerDeadLetterRecord(message, error) ==
    DeadLetterRecord(message, error.type, FormatErrorMessage(error),
                     "events_consumer_processing")

\* The for loop given up at the first message that failed.
MoreMessages_StopsAtFailure(done, msgs) ==
    /\ Len(done) < Len(msgs)
    /\ \A i \in 1..Len(done) : done[i].outcome = "processed"

\* for message in messages: another message is left to attempt.
MoreMessages(done, msgs) == Len(done) < Len(msgs)

\* process_valid_events is called with n messages.
process_valid_events_call(caller, n) ==
    /\ pvePc # "loop"
    /\ pveBatches < MaxBatches
    /\ pvePc' = "loop"
    /\ pveCaller' = caller
    /\ pveMessages' = [i \in 1..n |-> i]
    /\ processed' = 0
    /\ errors' = 0
    /\ attempts' = <<>>
    /\ handed' = <<>>
    /\ pveBatches' = pveBatches + 1
    /\ UNCHANGED <<otherVars, sinkVars, consumerVars, deadLetterVars, handlerVars, producerVars, metrics, pipelineVars>>

\* One iteration of the for loop: error is what transform_user_event
\* raised (NoError when it returned), appendOk and diskOk decide add_event,
\* valid and writeOk the handler's call.
process_valid_events_message(error, appendOk, diskOk, valid, writeOk) ==
    /\ pvePc = "loop"
    /\ MoreMessages(attempts, pveMessages)
    /\ LET message == pveMessages[Len(attempts) + 1]
           rec == [id |-> Len(current_batch) + total_events_written + 1,
                   ev |-> [event_id |-> S(message)]]
           added == AddEvent(Writer, rec, appendOk, diskOk)
           dead_letter_event == ConsumerDeadLetterRecord(message, error)
       IN  IF error # NoError
           THEN /\ errors' = errors + 1
                /\ SetHandler(ProcessDeadLetterEvent(Handler, dead_letter_event, valid, writeOk,
                                                     handlerCalls + 1),
                              dead_letter_event)
                /\ metrics' = [metrics EXCEPT !.errors = @ + 1, !.dead_letter_events = @ + 1]
                /\ handed' = Append(handed, dead_letter_event)
                /\ attempts' = Append(attempts, [message |-> message, outcome |-> "raised"])
                /\ UNCHANGED <<processed, current_batch, total_events_written, file_count, files>>
           ELSE /\ SetWriter(added.w)
                /\ IF added.ret
                   THEN /\ processed' = processed + 1
                        /\ metrics' = [metrics EXCEPT !.events_written = @ + 1]
                        /\ UNCHANGED errors
                   ELSE /\ errors' = errors + 1
                        /\ metrics' = [metrics EXCEPT !.errors = @ + 1]
                        /\ UNCHANGED processed
                /\ attempts' = Append(attempts,
                                      [message |-> message,
                                       outcome |-> IF added.ret THEN "processed" ELSE "add_failed"])
                /\ UNCHANGED <<handed, handlerVars>>
    /\ UNCHANGED <<pvePc, pveCaller, pveMessages, pveBatches>>
    /\ UNCHANGED <<batch_size, addCalls, autoFlushes, onlyAdds, lastOp, lastRet, lastWrite>>
    /\ UNCHANGED <<otherVars, consumerVars, deadLetterVars, producerVars, pipelineVars>>

\* The for loop is over: return processed, errors; _run_events_consumer
\* then adds them to the metrics.
process_valid_events_return ==
    /\ pvePc = "loop"
    /\ ~MoreMessages(attempts, pveMessages)
    /\ pvePc' = "done"
    /\ metrics' = IF pveCaller = "_run_events_consumer"
                  THEN [metrics EXCEPT !.valid_events_consumed = @ + Len(pveMessages),
                                       !.events_transformed = @ + processed,
                                       !.errors = @ + errors,
                                       !.batches_processed = @ + 1]
                  ELSE metrics
    /\ UNCHANGED <<pveCaller, pveMessages, processed, errors, attempts, handed, pveBatches>>
    /\ UNCHANGED <<otherVars, sinkVars, consumerVars, deadLetterVars, handlerVars, producerVars, pipelineVars>>

\* No call of process_valid_events yet.
InitProcessValidEvents ==
    /\ pvePc = "idle"
    /\ pveCaller = "test"
    /\ pveMessages = <<>>
    /\ processed = 0
    /\ errors = 0
    /\ attempts = <<>>
    /\ handed = <<>>
    /\ pveBatches = 0

----------------------------------------------------------------------------
\* StreamingPipeline: start, stop and the four loops

\* The threads start() launches.
Workers == {"producer", "events_consumer", "dead_letter_consumer"}
Threads == Workers \cup {"monitoring"}

\* The components stop() closes.
Components ==
    {"producer", "consumer", "dead_letter_consumer", "sink_writer", "dead_letter_handler"}

\* The thread has not been started or its target has returned.
NotAlive(thread) == pc[thread] \in {"unstarted", "done"}

\* The loop condition of the three worker loops: expired tells whether
\* duration_seconds have passed.
LoopContinues(expired) == ~expired /\ ~shutdown_event

\* The loop condition of _monitoring_loop.
MonitoringContinues == is_running /\ ~shutdown_event

\* The counter update self.metrics.x += amount written back as it is
\* executed: with the current value of the counter, under a lock.
WriteBack_Atomic(read, current, amount) == current + amount

\* self.metrics.x += amount: the value read earlier plus the amount is
\* stored, whatever the counter holds by then.
WriteBack(read, current, amount) == read + amount

\* The owner of the pipeline is not inside start() or stop(): no call has
\* been made, the last one has returned, or start() has raised.
OwnerIsOutside == mainPc \in {"idle", "raised"}

\* start() up to self.is_running = True.  Called on a pipeline none of
\* whose threads is alive.
start ==
    /\ mainPc = "idle"
    /\ calls < MaxLifecycleCalls
    /\ \A t \in Threads : NotAlive(t)
    /\ is_running' = TRUE
    /\ mainPc' = "start_monitoring"
    /\ calls' = calls + 1
    /\ UNCHANGED <<otherVars, sinkVars, consumerVars, deadLetterVars, handlerVars, producerVars,
                   pveVars, shutdown_event, stops, closed, threadVars, metrics>>

\* start(): self.monitoring_thread.start(), before the try statement.
\* Thread.start raises RuntimeError when no thread can be started, and
\* start() ends with that exception.
start_monitoring(launchOk) ==
    /\ mainPc = "start_monitoring"
    /\ IF launchOk
       THEN /\ pc' = [pc EXCEPT !["monitoring"] = "check"]
            /\ mainPc' = "launch"
       ELSE /\ pc' = pc
            /\ mainPc' = "raised"
    /\ UNCHANGED <<otherVars, sinkVars, consumerVars, deadLetterVars, handlerVars, producerVars,
                   pveVars, is_running, shutdown_event, calls, stops, closed, reg, iters,
                   increments, inSink, inHandler, eventsOffset, metrics>>

\* start(): the three worker threads are started.
start_launch ==
    /\ mainPc = "launch"
    /\ pc' = [t \in Threads |-> IF t \in Workers THEN "check" ELSE pc[t]]
    /\ mainPc' = "join"
    /\ UNCHANGED <<otherVars, sinkVars, consumerVars, deadLetterVars, handlerVars, producerVars,
                   pveVars, is_running, shutdown_event, calls, stops, closed, reg,
                   iters, increments, inSink, inHandler, eventsOffset, metrics>>

\* start(): the three joins have returned; finally: self.stop().
start_join ==
    /\ mainPc = "join"
    /\ \A t \in Workers : pc[t] = "done"
    /\ mainPc' = "stop"
    /\ UNCHANGED <<otherVars, sinkVars, consumerVars, deadLetterVars, handlerVars, producerVars,
                   pveVars, is_running, shutdown_event, calls, stops, closed,
                   threadVars, metrics>>

\* start(): KeyboardInterrupt while joining; finally: self.stop().
start_interrupted ==
    /\ mainPc = "join"
    /\ \E t \in Workers : pc[t] # "done"
    /\ mainPc' = "stop"
    /\ UNCHANGED <<otherVars, sinkVars, consumerVars, deadLetterVars, handlerVars, producerVars,
                   pveVars, is_running, shutdown_event, calls, stops, closed,
                   threadVars, metrics>>

\* stop() is called by the owner of the pipeline; after a start() that
\* raised it is the only call the owner makes.
stop_call ==
    /\ OwnerIsOutside
    /\ calls < MaxLifecycleCalls
    /\ mainPc' = "stop"
    /\ calls' = calls + 1
    /\ UNCHANGED <<otherVars, sinkVars, consumerVars, deadLetterVars, handlerVars, producerVars,
                   pveVars, is_running, shutdown_event, stops, closed, threadVars,
                   metrics>>

\* stop(): self.is_running = False; self.shutdown_event.set()
stop ==
    /\ mainPc = "stop"
    /\ is_running' = FALSE
    /\ shutdown_event' = TRUE
    /\ closed' = {}
    /\ mainPc' = "close_producer"
    /\ UNCHANGED <<otherVars, sinkVars, consumerVars, deadLetterVars, handlerVars, producerVars,
                   pveVars, calls, stops, threadVars, metrics>>

\* stop(): self.producer.close(), which flushes the Kafka producer and
\* does not catch what that raises; the except branch of stop() skips the
\* remaining closes.
stop_close_producer(flushOk) ==
    /\ mainPc = "close_producer"
    /\ IF flushOk
       THEN /\ closed' = closed \cup {"producer"}
            /\ mainPc' = "close_consumers"
       ELSE /\ closed' = closed
            /\ mainPc' = "final_metrics"
    /\ UNCHANGED <<otherVars, sinkVars, consumerVars, deadLetterVars, handlerVars, producerVars,
                   pveVars, is_running, shutdown_event, calls, stops, threadVars,
                   metrics>>

\* stop(): self.consumer.close() and self.dead_letter_consumer.close(),
\* which catch their own exceptions.
stop_close_consumers ==
    /\ mainPc = "close_consumers"
    /\ closed' = closed \cup {"consumer", "dead_letter_consumer"}
    /\ mainPc' = "close_sink_writer"
    /\ UNCHANGED <<otherVars, sinkVars, consumerVars, deadLetterVars, handlerVars, producerVars,
                   pveVars, is_running, shutdown_event, calls, stops, threadVars,
                   metrics>>

\* stop(): self.sink_writer.close() is entered.
stop_close_sink_writer ==
    /\ mainPc = "close_sink_writer"
    /\ inSink' = inSink \cup {"main"}
    /\ mainPc' = "in_sink_writer"
    /\ UNCHANGED <<otherVars, sinkVars, consumerVars, deadLetterVars, handlerVars, producerVars,
                   pveVars, is_running, shutdown_event, calls, stops, closed, pc, reg,
                   iters, increments, inHandler, eventsOffset, metrics>>

\* ParquetSinkWriter.close flushes what is buffered and returns.
stop_sink_writer_closed(diskOk) ==
    /\ mainPc = "in_sink_writer"
    /\ SetWriter(IF CloseFlushes(current_batch) THEN FlushBatch(Writer, diskOk).w ELSE Writer)
    /\ inSink' = inSink \ {"main"}
    /\ closed' = closed \cup {"sink_writer"}
    /\ mainPc' = "close_dead_letter_handler"
    /\ UNCHANGED <<otherVars, batch_size, addCalls, autoFlushes, onlyAdds, lastOp, lastRet,
                   lastWrite, consumerVars, deadLetterVars, handlerVars, producerVars,
                   pveVars, is_running, shutdown_event, calls, stops, pc, reg, iters,
                   increments, inHandler, eventsOffset, metrics>>

\* stop(): self.dead_letter_handler.close() is entered.
stop_close_dead_letter_handler ==
    /\ mainPc = "close_dead_letter_handler"
    /\ inHandler' = inHandler \cup {"main"}
    /\ mainPc' = "in_dead_letter_handler"
    /\ UNCHANGED <<otherVars, sinkVars, consumerVars, deadLetterVars, handlerVars, producerVars,
                   pveVars, is_running, shutdown_event, calls, stops, closed, pc, reg,
                   iters, increments, inSink, eventsOffset, metrics>>

\* DeadLetterHandler.close logs its statistics and returns.
stop_dead_letter_handler_closed ==
    /\ mainPc = "in_dead_letter_handler"
    /\ inHandler' = inHandler \ {"main"}
    /\ closed' = closed \cup {"dead_letter_handler"}
    /\ mainPc' = "join_monitoring"
    /\ UNCHANGED <<otherVars, sinkVars, consumerVars, deadLetterVars, handlerVars, producerVars,
                   pveVars, is_running, shutdown_event, calls, stops, pc, reg, iters,
                   increments, inSink, eventsOffset, metrics>>

\* monitoring_thread.join(timeout=5) returns: the thread is not alive, or
\* it is in its time.sleep(30) and the timeout passes.
JoinReturns == NotAlive("monitoring") \/ pc["monitoring"] = "sleep"

\* stop(): the wait for the monitoring thread is over.
stop_join_monitoring ==
    /\ mainPc = "join_monitoring"
    /\ JoinReturns
    /\ mainPc' = "final_metrics"
    /\ UNCHANGED <<otherVars, sinkVars, consumerVars, deadLetterVars, handlerVars, producerVars,
                   pveVars, is_running, shutdown_event, calls, stops, closed,
                   threadVars, metrics>>

\* stop(): the final metrics are logged and stop() returns.
stop_return ==
    /\ mainPc = "final_metrics"
    /\ mainPc' = "idle"
    /\ stops' = stops + 1
    /\ UNCHANGED <<otherVars, sinkVars, consumerVars, deadLetterVars, handlerVars, producerVars,
                   pveVars, is_running, shutdown_event, calls, closed, threadVars,
                   metrics>>

\* The loop test of a worker loop: another iteration, or the thread ends.
worker_check(thread, expired) ==
    /\ pc[thread] = "check"
    /\ LoopContinues(expired) => iters < MaxIterations
    /\ IF LoopContinues(expired)
       THEN /\ pc' = [pc EXCEPT ![thread] = "body"]
            /\ iters' = iters + 1
       ELSE /\ pc' = [pc EXCEPT ![thread] = "done"]
            /\ iters' = iters
    /\ UNCHANGED <<otherVars, sinkVars, consumerVars, deadLetterVars, handlerVars, producerVars,
                   pveVars, lifecycleVars, reg, increments, inSink, inHandler, eventsOffset,
                   metrics>>

\* _run_producer: process one event; a success is counted at once, for a
\* failure metrics.errors is read.
producer_process(is_valid, error_message, produceOk) ==
    /\ pc["producer"] = "body"
    /\ LET id == Len(events_topic) + Len(dead_letter_topic) + producer_error_count + 1
           p == ProcessEvent(Producer, id, is_valid, error_message, produceOk)
       IN  /\ events_topic' = p.events_topic
           /\ dead_letter_topic' = p.dead_letter_topic
           /\ producer_event_count' = p.event_count
           /\ producer_error_count' = p.error_count
           /\ producerRet' = p.ret
           /\ IF p.ret
              THEN /\ metrics' = [metrics EXCEPT !.events_produced = @ + 1]
                   /\ pc' = [pc EXCEPT !["producer"] = "check"]
                   /\ reg' = reg
              ELSE /\ metrics' = metrics
                   /\ pc' = [pc EXCEPT !["producer"] = "write_errors"]
                   /\ reg' = [reg EXCEPT !["producer"] = metrics.errors]
    /\ UNCHANGED <<otherVars, sinkVars, consumerVars, deadLetterVars, handlerVars, dlOffset,
                   pveVars, lifecycleVars, iters, increments, inSink, inHandler,
                   eventsOffset>>

\* _run_producer: self.metrics.errors += 1 is written back.
producer_write_errors ==
    /\ pc["producer"] = "write_errors"
    /\ metrics' = [metrics EXCEPT !.errors = WriteBack(reg["producer"], @, 1)]
    /\ increments' = [increments EXCEPT !.errors = @ + 1]
    /\ pc' = [pc EXCEPT !["producer"] = "check"]
    /\ reg' = [reg EXCEPT !["producer"] = 0]
    /\ UNCHANGED <<otherVars, sinkVars, consumerVars, deadLetterVars, handlerVars, producerVars,
                   pveVars, lifecycleVars, iters, inSink, inHandler, eventsOffset>>

\* _run_events_consumer: consume_batch returns n records of the events
\* topic; an empty batch leads back to the loop test, another one enters
\* process_valid_events.
events_consume(n) ==
    /\ pc["events_consumer"] = "body"
    /\ n <= Len(events_topic) - eventsOffset
    /\ IF n = 0
       THEN /\ pc' = [pc EXCEPT !["events_consumer"] = "check"]
            /\ UNCHANGED <<eventsOffset, pveVars>>
       ELSE /\ pc' = [pc EXCEPT !["events_consumer"] = "message"]
            /\ eventsOffset' = eventsOffset + n
            /\ pveMessages' = SubSeq(events_topic, eventsOffset + 1, eventsOffset + n)
            /\ pvePc' = "loop"
            /\ pveCaller' = "_run_events_consumer"
            /\ processed' = 0
            /\ errors' = 0
            /\ attempts' = <<>>
            /\ handed' = <<>>
            /\ pveBatches' = pveBatches + 1
    /\ UNCHANGED <<otherVars, sinkVars, consumerVars, deadLetterVars, handlerVars, producerVars,
                   lifecycleVars, reg, iters, increments, inSink, inHandler, metrics>>

\* process_valid_events, next message: transform_user_event returns and
\* add_event is entered, or it raises, errors is counted and metrics.errors
\* is read.
events_message(error) ==
    /\ pc["events_consumer"] = "message"
    /\ MoreMessages(attempts, pveMessages)
    /\ IF error = NoError
       THEN /\ inSink' = inSink \cup {"events_consumer"}
            /\ pc' = [pc EXCEPT !["events_consumer"] = "in_sink_writer"]
            /\ UNCHANGED <<errors, reg, handed>>
       ELSE /\ errors' = errors + 1
            /\ reg' = [reg EXCEPT !["events_consumer"] = metrics.errors]
            /\ handed' = Append(handed,
                                ConsumerDeadLetterRecord(pveMessages[Len(attempts) + 1], error))
            /\ pc' = [pc EXCEPT !["events_consumer"] = "write_errors_raised"]
            /\ inSink' = inSink
    /\ UNCHANGED <<otherVars, sinkVars, consumerVars, deadLetterVars, handlerVars, producerVars,
                   pvePc, pveCaller, pveMessages, processed, attempts, pveBatches,
                   lifecycleVars, iters, increments, inHandler, eventsOffset, metrics>>

\* process_valid_events: add_event returns; True is counted at once, for
\* False errors is counted and metrics.errors is read.
events_add_event(appendOk, diskOk) ==
    /\ pc["events_consumer"] = "in_sink_writer"
    /\ LET message == pveMessages[Len(attempts) + 1]
           rec == [id |-> message, ev |-> [event_id |-> S(message)]]
           r == AddEvent(Writer, rec, appendOk, diskOk)
       IN  /\ SetWriter(r.w)
           /\ inSink' = inSink \ {"events_consumer"}
           /\ IF r.ret
              THEN /\ processed' = processed + 1
                   /\ metrics' = [metrics EXCEPT !.events_written = @ + 1]
                   /\ attempts' = Append(attempts, [message |-> message, outcome |-> "processed"])
                   /\ pc' = [pc EXCEPT !["events_consumer"] = "message"]
                   /\ UNCHANGED <<errors, reg>>
              ELSE /\ errors' = errors + 1
                   /\ reg' = [reg EXCEPT !["events_consumer"] = metrics.errors]
                   /\ pc' = [pc EXCEPT !["events_consumer"] = "write_errors_add"]
                   /\ UNCHANGED <<processed, metrics, attempts>>
    /\ UNCHANGED <<otherVars, batch_size, addCalls, autoFlushes, onlyAdds, lastOp, lastRet,
                   lastWrite, consumerVars, deadLetterVars, handlerVars, producerVars,
                   pvePc, pveCaller, pveMessages, handed, pveBatches, lifecycleVars,
                   iters, increments, inHandler, eventsOffset>>

\* process_valid_events, else branch: self.metrics.errors += 1 is written
\* back; the message is done.
events_write_errors ==
    /\ pc["events_consumer"] = "write_errors_add"
    /\ metrics' = [metrics EXCEPT !.errors = WriteBack(reg["events_consumer"], @, 1)]
    /\ increments' = [increments EXCEPT !.errors = @ + 1]
    /\ attempts' = Append(attempts, [message |-> pveMessages[Len(attempts) + 1],
                                     outcome |-> "add_failed"])
    /\ pc' = [pc EXCEPT !["events_consumer"] = "message"]
    /\ reg' = [reg EXCEPT !["events_consumer"] = 0]
    /\ UNCHANGED <<otherVars, sinkVars, consumerVars, deadLetterVars, handlerVars, producerVars,
                   pvePc, pveCaller, pveMessages, processed, errors, handed,
                   pveBatches, lifecycleVars, iters, inSink, inHandler,
                   eventsOffset>>

\* process_valid_events, except branch: self.metrics.errors += 1 is written
\* back and the dead-letter handler is entered.
events_write_errors_raised ==
    /\ pc["events_consumer"] = "write_errors_raised"
    /\ metrics' = [metrics EXCEPT !.errors = WriteBack(reg["events_consumer"], @, 1)]
    /\ increments' = [increments EXCEPT !.errors = @ + 1]
    /\ inHandler' = inHandler \cup {"events_consumer"}
    /\ pc' = [pc EXCEPT !["events_consumer"] = "in_dead_letter_handler"]
    /\ reg' = [reg EXCEPT !["events_consumer"] = 0]
    /\ UNCHANGED <<otherVars, sinkVars, consumerVars, deadLetterVars, handlerVars, producerVars,
                   pveVars, lifecycleVars, iters, inSink, eventsOffset>>

\* process_valid_events, except branch: the handler returns and
\* metrics.dead_letter_events is read.
events_handler_returns(valid, writeOk) ==
    /\ pc["events_consumer"] = "in_dead_letter_handler"
    /\ LET dead_letter_event == handed[Len(handed)]
       IN  SetHandler(ProcessDeadLetterEvent(Handler, dead_letter_event, valid, writeOk,
                                             handlerCalls + 1),
                      dead_letter_event)
    /\ inHandler' = inHandler \ {"events_consumer"}
    /\ reg' = [reg EXCEPT !["events_consumer"] = metrics.dead_letter_events]
    /\ pc' = [pc EXCEPT !["events_consumer"] = "write_dead_letter_events"]
    /\ UNCHANGED <<otherVars, sinkVars, consumerVars, deadLetterVars, producerVars, pveVars,
                   lifecycleVars, iters, increments, inSink, eventsOffset, metrics>>

\* process_valid_events, except branch: self.metrics.dead_letter_events += 1
\* is written back; the message is done.
events_write_dead_letter_events ==
    /\ pc["events_consumer"] = "write_dead_letter_events"
    /\ metrics' = [metrics EXCEPT
                     !.dead_letter_events = WriteBack(reg["events_consumer"], @, 1)]
    /\ increments' = [increments EXCEPT !.dead_letter_events = @ + 1]
    /\ attempts' = Append(attempts, [message |-> pveMessages[Len(attempts) + 1],
                                     outcome |-> "raised"])
    /\ pc' = [pc EXCEPT !["events_consumer"] = "message"]
    /\ reg' = [reg EXCEPT !["events_consumer"] = 0]
    /\ UNCHANGED <<otherVars, sinkVars, consumerVars, deadLetterVars, handlerVars, producerVars,
                   pvePc, pveCaller, pveMessages, processed, errors, handed,
                   pveBatches, lifecycleVars, iters, inSink, inHandler,
                   eventsOffset>>

\* process_valid_events returns; _run_events_consumer counts the batch and
\* reads metrics.errors.
events_batch_processed ==
    /\ pc["events_consumer"] = "message"
    /\ ~MoreMessages(attempts, pveMessages)
    /\ pvePc' = "done"
    /\ metrics' = [metrics EXCEPT !.valid_events_consumed = @ + Len(pveMessages),
                                  !.events_transformed = @ + processed]
    /\ reg' = [reg EXCEPT !["events_consumer"] = metrics.errors]
    /\ pc' = [pc EXCEPT !["events_consumer"] = "write_errors_batch"]
    /\ UNCHANGED <<otherVars, sinkVars, consumerVars, deadLetterVars, handlerVars, producerVars,
                   pveCaller, pveMessages, processed, errors, attempts, handed,
                   pveBatches, lifecycleVars, iters, increments, inSink, inHandler,
                   eventsOffset>>

\* _run_events_consumer: self.metrics.errors += errors is written back.
events_write_batch_errors ==
    /\ pc["events_consumer"] = "write_errors_batch"
    /\ metrics' = [metrics EXCEPT !.errors = WriteBack(reg["events_consumer"], @, errors),
                                  !.batches_processed = @ + 1]
    /\ increments' = [increments EXCEPT !.errors = @ + errors]
    /\ pc' = [pc EXCEPT !["events_consumer"] = "check"]
    /\ reg' = [reg EXCEPT !["events_consumer"] = 0]
    /\ UNCHANGED <<otherVars, sinkVars, consumerVars, deadLetterVars, handlerVars, producerVars,
                   pveVars, lifecycleVars, iters, inSink, inHandler, eventsOffset>>

\* _run_dead_letter_consumer: consume_message returns the next record of
\* the dead-letter topic and the handler is entered, or it returns None.
dead_letter_consume ==
    /\ pc["dead_letter_consumer"] = "body"
    /\ IF dlOffset < Len(dead_letter_topic)
       THEN /\ dlOffset' = dlOffset + 1
            /\ inHandler' = inHandler \cup {"dead_letter_consumer"}
            /\ pc' = [pc EXCEPT !["dead_letter_consumer"] = "in_dead_letter_handler"]
       ELSE /\ pc' = [pc EXCEPT !["dead_letter_consumer"] = "check"]
            /\ UNCHANGED <<dlOffset, inHandler>>
    /\ UNCHANGED <<otherVars, sinkVars, consumerVars, deadLetterVars, handlerVars, events_topic,
                   dead_letter_topic, producer_event_count, producer_error_count,
                   producerRet, pveVars, lifecycleVars, reg, iters, increments, inSink,
                   eventsOffset, metrics>>

\* StreamingPipeline.process_dead_letter_event: the handler returns and
\* metrics.dead_letter_events is read.
dead_letter_handler_returns(valid, writeOk) ==
    /\ pc["dead_letter_consumer"] = "in_dead_letter_handler"
    /\ LET message == dead_letter_topic[dlOffset]
       IN  SetHandler(ProcessDeadLetterEvent(Handler, message, valid, writeOk, handlerCalls + 1),
                      message)
    /\ inHandler' = inHandler \ {"dead_letter_consumer"}
    /\ reg' = [reg EXCEPT !["dead_letter_consumer"] = metrics.dead_letter_events]
    /\ pc' = [pc EXCEPT !["dead_letter_consumer"] = "write_dead_letter_events"]
    /\ UNCHANGED <<otherVars, sinkVars, consumerVars, deadLetterVars, producerVars, pveVars,
                   lifecycleVars, iters, increments, inSink, eventsOffset, metrics>>

\* _run_dead_letter_consumer: self.metrics.dead_letter_events += 1 is
\* written back, then dead_letter_events_consumed is counted.
dead_letter_write_dead_letter_events ==
    /\ pc["dead_letter_consumer"] = "write_dead_letter_events"
    /\ metrics' = [metrics EXCEPT
                     !.dead_letter_events = WriteBack(reg["dead_letter_consumer"], @, 1),
                     !.dead_letter_events_consumed = @ + 1]
    /\ increments' = [increments EXCEPT !.dead_letter_events = @ + 1]
    /\ pc' = [pc EXCEPT !["dead_letter_consumer"] = "check"]
    /\ reg' = [reg EXCEPT !["dead_letter_consumer"] = 0]
    /\ UNCHANGED <<otherVars, sinkVars, consumerVars, deadLetterVars, handlerVars, producerVars,
                   pveVars, lifecycleVars, iters, inSink, inHandler, eventsOffset>>

\* _monitoring_loop: the loop test.
monitoring_check ==
    /\ pc["monitoring"] = "check"
    /\ MonitoringContinues => iters < MaxIterations
    /\ IF MonitoringContinues
       THEN /\ pc' = [pc EXCEPT !["monitoring"] = "body"]
            /\ iters' = iters + 1
       ELSE /\ pc' = [pc EXCEPT !["monitoring"] = "done"]
            /\ iters' = iters
    /\ UNCHANGED <<otherVars, sinkVars, consumerVars, deadLetterVars, handlerVars, producerVars,
                   pveVars, lifecycleVars, reg, increments, inSink, inHandler, eventsOffset,
                   metrics>>

\* _monitoring_loop: the health check is made and time.sleep(30) begins
\* (time.sleep(5) when the check raised).
monitoring_health_check ==
    /\ pc["monitoring"] = "body"
    /\ pc' = [pc EXCEPT !["monitoring"] = "sleep"]
    /\ UNCHANGED <<otherVars, sinkVars, consumerVars, deadLetterVars, handlerVars, producerVars,
                   pveVars, lifecycleVars, reg, iters, increments, inSink, inHandler,
                   eventsOffset, metrics>>

\* _monitoring_loop: the sleep is over.
monitoring_wake ==
    /\ pc["monitoring"] = "sleep"
    /\ pc' = [pc EXCEPT !["monitoring"] = "check"]
    /\ UNCHANGED <<otherVars, sinkVars, consumerVars, deadLetterVars, handlerVars, producerVars,
                   pveVars, lifecycleVars, reg, iters, increments, inSink, inHandler,
                   eventsOffset, metrics>>

\* StreamingPipeline.__init__: Idle, no thread started.
InitPipeline ==
    /\ is_running = FALSE
    /\ shutdown_event = FALSE
    /\ mainPc = "idle"
    /\ calls = 0
    /\ stops = 0
    /\ closed = {}
    /\ pc = [t \in Threads |-> "unstarted"]
    /\ reg = [t \in Threads |-> 0]
    /\ iters = 0
    /\ increments = [errors |-> 0, dead_letter_events |-> 0]
    /\ inSink = {}
    /\ inHandler = {}
    /\ eventsOffset = 0

----------------------------------------------------------------------------
\* PipelineHealthChecker

\* A component whose counters raise when they are read.
Broken == [readable |-> FALSE]

\* A name that is not passed to check_overall_health.
Absent == [readable |-> FALSE, absent |-> TRUE]

\* DeadLetterHandler.get_error_statistics; success_rate is kept as the
\* pair of the dividend and the divisor.
GetErrorStatistics(h) ==
    [processed_dead_letter_events |-> h.processed_count,
     failed_dead_letter_events |-> h.error_count,
     success_rate |-> IF h.processed_count + h.error_count > 0
                      THEN <<h.processed_count, h.processed_count + h.error_count>>
                      ELSE <<0, 1>>]

\* The producers check_producer_health is given: event_count, error_count.
ProducerObjects ==
    {Broken} \cup
    { [error_count |-> e, event_count |-> s, readable |-> TRUE] :
          s \in 0..MaxSuccesses, e \in 0..MaxErrors }

\* The consumers check_consumer_health is given.
ConsumerObjects ==
    {Broken} \cup
    { [processed_count |-> s, error_count |-> e, readable |-> TRUE, batch_count |-> b] :
          s \in 0..MaxSuccesses, e \in 0..MaxErrors, b \in 0..1 }

\* The handlers check_dead_letter_health is given.
HandlerObjects ==
    {Broken} \cup
    { [processed_count |-> s, error_count |-> e, readable |-> TRUE] :
          s \in 0..MaxSuccesses, e \in 0..MaxErrors }

\* Sink writers holding nothing or one record.
BufferedWriters ==
    { [current_batch |-> b, file_count |-> 0, total_events_written |-> 0, files |-> <<>>] :
          b \in {<<>>} \cup { <<[ev |-> e, id |-> 1]>> : e \in Events } }

\* The sink writers check_sink_health is given: a ParquetSinkWriter after a
\* flush_batch call, with the write that call attempted, or an object whose
\* get_stats reports a write_failures count.
SinkObjects ==
    {Broken}
    \cup { [write |-> r.write, readable |-> TRUE, stats |-> GetStats(r.w)] :
               r \in { FlushBatch(w, diskOk) : w \in BufferedWriters, diskOk \in BOOLEAN } }
    \cup { [write |-> IF e > 0 THEN "fail" ELSE "ok",
            readable |-> TRUE,
            stats |-> [total_events_written |-> s, files_written |-> 1, write_failures |-> e]] :
               s \in 0..MaxSuccesses, e \in 0..MaxErrors }

\* stats.get('write_failures', 0) as read by check_sink_health
WriteFailures(stats) ==
    IF "write_failures" \in DOMAIN stats THEN stats.write_failures ELSE 0

\* The error-rate test with >= instead of >.
HighErrorRate_Inclusive(n_errors, total_events) ==
    total_events > 0 /\ 10 * n_errors >= total_events

\* total_events > 0 and (error_count / total_events) > 0.1
HighErrorRate(n_errors, total_events) ==
    total_events > 0 /\ 10 * n_errors > total_events

\* The except branch of every check.
Unhealthy == [error |-> "raised", status |-> "unhealthy"]

\* PipelineHealthChecker.check_producer_health
CheckProducerHealth(producer) ==
    IF ~producer.readable THEN Unhealthy
    ELSE LET stats == [errors |-> producer.error_count,
                       events_produced |-> producer.event_count,
                       status |-> "healthy"]
             total_events == producer.event_count + producer.error_count
         IN  IF HighErrorRate(producer.error_count, total_events)
             THEN WithKey([stats EXCEPT !.status = "warning"],
                          "message", "High error rate detected")
             ELSE stats

\* PipelineHealthChecker.check_consumer_health
CheckConsumerHealth(consumer) ==
    IF ~consumer.readable THEN Unhealthy
    ELSE LET stats == [errors |-> consumer.error_count,
                       batches_processed |-> consumer.batch_count,
                       status |-> "healthy",
                       events_processed |-> consumer.processed_count]
             total_events == consumer.processed_count + consumer.error_count
         IN  IF HighErrorRate(consumer.error_count, total_events)
             THEN WithKey([stats EXCEPT !.status = "warning"],
                          "message", "High error rate detected")
             ELSE stats

\* PipelineHealthChecker.check_sink_health
CheckSinkHealth(sink_writer) ==
    IF ~sink_writer.readable THEN Unhealthy
    ELSE LET stats == WithKey(sink_writer.stats, "status", "healthy")
         IN  IF WriteFailures(stats) > 0
             THEN WithKey([stats EXCEPT !.status = "warning"],
                          "message", "Write failures detected")
             ELSE stats

\* stats.get('failed_dead_letter_events', 0)
FailedDeadLetterEvents(stats) ==
    IF "failed_dead_letter_events" \in DOMAIN stats
    THEN stats.failed_dead_letter_events ELSE 0

\* check_dead_letter_health warning on the error ratio instead of on any
\* failure.
CheckDeadLetterHealth_Ratio(handler) ==
    IF ~handler.readable THEN Unhealthy
    ELSE LET stats == WithKey(GetErrorStatistics(handler), "status", "healthy")
         IN  IF HighErrorRate(handler.error_count,
                              handler.processed_count + handler.error_count)
             THEN WithKey([stats EXCEPT !.status = "warning"],
                          "message", "Dead letter processing failures detected")
             ELSE stats

\* PipelineHealthChecker.check_dead_letter_health
CheckDeadLetterHealth(handler) ==
    IF ~handler.readable THEN Unhealthy
    ELSE LET stats == WithKey(GetErrorStatistics(handler), "status", "healthy")
         IN  IF FailedDeadLetterEvents(stats) > 0
             THEN WithKey([stats EXCEPT !.status = "warning"],
                          "message", "Dead letter processing failures detected")
             ELSE stats

\* PipelineHealthChecker.check_dead_letter_consumer_health: nothing of the
\* consumer is read.
CheckDeadLetterConsumerHealth(consumer) ==
    [message |-> "Dead letter consumer operational", status |-> "healthy"]

\* The component names check_overall_health has a branch for.
KnownComponents ==
    {"producer", "events_consumer", "dead_letter_consumer", "sink_writer",
     "dead_letter_handler"}

\* The if / elif chain of check_overall_health.
CheckComponent(name, component) ==
    CASE name = "producer" -> CheckProducerHealth(component)
      [] name = "events_consumer" -> CheckConsumerHealth(component)
      [] name = "dead_letter_consumer" -> CheckDeadLetterConsumerHealth(component)
      [] name = "sink_writer" -> CheckSinkHealth(component)
      [] name = "dead_letter_handler" -> CheckDeadLetterHealth(component)

\* Overall status with the warning test made first.
OverallStatus_WarningFirst(entries) ==
    IF \E n \in DOMAIN entries : entries[n].status = "warning" THEN "warning"
    ELSE IF \E n \in DOMAIN entries : entries[n].status = "unhealthy" THEN "unhealthy"
    ELSE "healthy"

\* check_overall_health: unhealthy_components, else warning_components.
OverallStatus(entries) ==
    IF \E n \in DOMAIN entries : entries[n].status = "unhealthy" THEN "unhealthy"
    ELSE IF \E n \in DOMAIN entries : entries[n].status = "warning" THEN "warning"
    ELSE "healthy"

\* The snapshot check_overall_health builds from its argument at time now.
Snapshot(components, now) ==
    LET entries == [name \in DOMAIN components \cap KnownComponents |->
                        CheckComponent(name, components[name])]
    IN  [components |-> entries,
         timestamp |-> now,
         overall_status |-> OverallStatus(entries)]

\* A check_*_health method called directly with a component.
Checked(name, component, stats) ==
    /\ lastHealth' = [stats |-> stats, name |-> name, component |-> component]
    /\ UNCHANGED <<health_status, last_check, hcComponents>>
    /\ UNCHANGED <<metricsVars, commitVars, transformVars>>
    /\ UNCHANGED <<sinkVars, consumerVars, deadLetterVars, recordVars, pipelineVars>>

check_producer_health(producer) ==
    Checked("producer", producer, CheckProducerHealth(producer))

check_consumer_health(consumer) ==
    Checked("events_consumer", consumer, CheckConsumerHealth(consumer))

check_sink_health(sink_writer) ==
    Checked("sink_writer", sink_writer, CheckSinkHealth(sink_writer))

check_dead_letter_health(handler) ==
    Checked("dead_letter_handler", handler, CheckDeadLetterHealth(handler))

check_dead_letter_consumer_health(consumer) ==
    Checked("dead_letter_consumer", consumer, CheckDeadLetterConsumerHealth(consumer))

\* PipelineHealthChecker.check_overall_health: the new snapshot replaces
\* self.health_status.
check_overall_health(components) ==
    /\ last_check < MaxHealthChecks
    /\ health_status' = Snapshot(components, last_check + 1)
    /\ last_check' = last_check + 1
    /\ hcComponents' = components
    /\ UNCHANGED lastHealth
    /\ UNCHANGED <<metricsVars, commitVars, transformVars>>
    /\ UNCHANGED <<sinkVars, consumerVars, deadLetterVars, recordVars, pipelineVars>>

\* The dict holding the names of pick that are not Absent.
Present(pick) == [n \in {m \in DOMAIN pick : pick[m] # Absent} |-> pick[n]]

\* PipelineHealthChecker.__init__
InitHealth ==
    /\ health_status = [n \in {} |-> 0]
    /\ last_check = 0
    /\ hcComponents = [n \in {} |-> 0]
    /\ lastHealth = [name |-> "none"]

\* PipelineMetrics

\* A rate (dividend / divisor) * 100, kept as the pair of 100 * dividend
\* and the divisor; 0.0 is <<0, 1>>.
Rate(dividend, divisor) ==
    IF divisor = 0 THEN <<0, 1>> ELSE <<100 * dividend, divisor>>

\* PipelineMetrics.get_success_rate: total_events is valid_events_consumed.
get_success_rate(m) == Rate(m.events_written, m.valid_events_consumed)

\* PipelineMetrics.get_error_rate: total_events is valid_events_consumed.
get_error_rate(m) == Rate(m.errors, m.valid_events_consumed)

\* The fields of the metrics the two rates are computed from, and
\* events_consumed.
RateFields == {"events_consumed", "valid_events_consumed", "events_written", "errors"}

\* An assignment to a field of the metrics by the holder of the pipeline.
set_metric(field, n) ==
    /\ metrics' = [metrics EXCEPT ![field] = n]
    /\ UNCHANGED <<handlerVars, producerVars, pveVars>>
    /\ UNCHANGED <<otherVars, sinkVars, consumerVars, deadLetterVars, pipelineVars>>

\* StreamingPipeline.get_metrics: the dict of the metrics with the two
\* rates added.
get_metrics ==
    /\ lastMetrics' = [success_rate |-> get_success_rate(metrics),
                       error_rate |-> get_error_rate(metrics),
                       called |-> TRUE]
    /\ UNCHANGED <<healthVars, commitVars, transformVars>>
    /\ UNCHANGED <<sinkVars, consumerVars, deadLetterVars, recordVars, pipelineVars>>

InitMetricsRead == lastMetrics = [called |-> FALSE]

\* The consumers of the pipeline.
Consumers == {"events_consumer", "dead_letter_consumer"}

\* CONSUMER_CONFIG: 'enable.auto.commit' is False, so an offset is committed
\* by a commit call only; a new consumer group has committed nothing.
InitCommitted == committed = [c \in Consumers |-> 0]

\* EventTransformer

\* d.update(e) on dicts
Updated(d, e) ==
    [k \in DOMAIN d \cup DOMAIN e |-> IF k \in DOMAIN e THEN e[k] ELSE d[k]]

\* The mappings of the schema file: purchase is a conversion of the
\* commerce category, page_view a view of the navigation category.
EventTypeMapping == [purchase |-> "conversion", page_view |-> "view"]
EventCategories == [purchase |-> "commerce", page_view |-> "navigation"]
ConversionEvents == {"purchase"}

\* SchemaValidator.get_event_type_mapping
get_event_type_mapping(event_type) ==
    IF event_type \in DOMAIN EventTypeMapping THEN EventTypeMapping[event_type] ELSE "unknown"

\* SchemaValidator.get_event_category
get_event_category(event_type) ==
    IF event_type \in DOMAIN EventCategories THEN EventCategories[event_type] ELSE "other"

\* SchemaValidator.is_conversion_event
is_conversion_event(event_type) == event_type \in ConversionEvents

\* EventTransformer._normalize_event_type
normalize_event_type(event) ==
    [is_conversion |-> is_conversion_event(event.event_type),
     normalized_event_type |-> get_event_type_mapping(event.event_type),
     event_category |-> get_event_category(event.event_type)]

\* EventTransformer._parse_user_agent, the parsed dict kept as the name of
\* its origin.
parse_user_agent(event) ==
    [user_agent_parsed |-> IF "user_agent" \in DOMAIN event THEN "parsed" ELSE "default_ua"]

\* EventTransformer._add_processing_metadata at time clock
add_processing_metadata(clock) ==
    [processed_at |-> clock, processing_version |-> "1.0"]

\* EventTransformer._calculate_business_metrics; transform_user_event does
\* not call it.
calculate_business_metrics(event) ==
    LET amount == IF "amount" \in DOMAIN event THEN event.amount ELSE 0
        revenue == IF event.event_type = "purchase" THEN amount ELSE 0
    IN  [revenue |-> revenue,
         conversion_value |-> IF is_conversion_event(event.event_type) THEN revenue ELSE 0]

\* What the transformed_event schema of the schema file says of revenue:
\* its default (NoArg for none) and whether the field is required.
TransformedSchemas ==
    { [revenue_default |-> d, revenue_required |-> r] : d \in {NoArg, 0}, r \in BOOLEAN }

\* SchemaValidator._apply_defaults with the transformed_event schema
ApplyDefaults(data, schema) ==
    IF "revenue" \notin DOMAIN data /\ schema.revenue_default # NoArg
    THEN WithKey(data, "revenue", schema.revenue_default)
    ELSE data

\* SchemaValidator.validate_transformed_event: the data with the defaults
\* applied, or ValidationError.
ValidateTransformedEvent(data, schema) ==
    LET validated_data == ApplyDefaults(data, schema)
    IN  IF schema.revenue_required /\ "revenue" \notin DOMAIN validated_data
        THEN [raised |-> TRUE]
        ELSE [value |-> validated_data, raised |-> FALSE]

\* EventTransformer.transform_user_event
TransformUserEvent(event, schema, clock) ==
    ValidateTransformedEvent(
        Updated(Updated(Updated(
            [event_id |-> event.event_id, timestamp |-> event.timestamp,
             event_type |-> event.event_type, user_id |-> event.user_id,
             session_id |-> event.session_id],
            normalize_event_type(event)), parse_user_agent(event)),
            add_processing_metadata(clock)),
        schema)

\* The raw events given to the transformer: a purchase, a page view or an
\* event of a type the mappings do not know, with or without an amount in
\* cents and a user agent.
RawEvents ==
    LET base == { [event_id |-> 1, timestamp |-> 1, event_type |-> t, user_id |-> 1,
                   session_id |-> 1] : t \in {"purchase", "page_view", "custom"} }
        amounts == { WithKey(b, "amount", a) : b \in base, a \in {9999} \cup 0..MaxSmallAmount }
        plain == base \cup amounts
    IN  plain \cup { WithKey(b, "user_agent", "Mozilla") : b \in plain }

\* A call of transform_user_event.
transform_user_event(event, schema, clock) ==
    /\ trResult' = [event |-> event, called |-> TRUE,
                    result |-> TransformUserEvent(event, schema, clock)]
    /\ UNCHANGED <<healthVars, metricsVars, commitVars>>
    /\ UNCHANGED <<sinkVars, consumerVars, deadLetterVars, recordVars, pipelineVars>>

InitTransform == trResult = [called |-> FALSE]

----------------------------------------------------------------------------
Init ==
    /\ InitSink /\ InitConsumer /\ InitDeadLetter
    /\ InitHandler /\ InitProducer /\ InitMetrics /\ InitProcessValidEvents
    /\ InitPipeline
    /\ InitHealth
    /\ InitMetricsRead
    /\ InitCommitted
    /\ InitTransform

\* The sink writer driven by its owner.
Next ==
    \/ \E event \in Events, diskOk \in BOOLEAN : add_event(event, diskOk)
    \/ \E diskOk \in BOOLEAN : flush_batch(diskOk)
    \/ \E diskOk \in BOOLEAN : close(diskOk)

Spec == Init /\ [][Next]_vars

\* The consumer accumulating batches from the broker.
NextConsumer ==
    \/ \E sizeArg \in {NoArg} \cup 0..MaxCount, timeoutArg \in {NoArg} \cup 0..MaxWait :
          consume_batch_call(sizeArg, timeoutArg)
    \/ \E outcome \in PollOutcomes, dt \in 0..1 : consume_batch_poll(outcome, dt)
    \/ consume_batch_return

\* The components as the pipeline constructs them: the sink writer with
\* the configured batch size.
InitDefault == Init /\ batch_size = BATCH_SIZE

SpecConsumer == InitDefault /\ [][NextConsumer]_vars

\* The dead-letter handler analysing records.
NextDeadLetter ==
    \/ \E error_type \in ErrorTypes, error_message \in ErrorMessages, stage \in ProcessingStages :
          analyze_error(error_type, error_message, stage)
    \/ analysis_returned

SpecDeadLetter == InitDefault /\ [][NextDeadLetter]_vars

\* The dead-letter path: the producer publishing, the dead-letter consumer
\* and direct callers handing records to the handler.
NextHandler ==
    \/ \E event \in HandlerEvents, valid \in BOOLEAN, writeOk \in BOOLEAN :
          process_dead_letter_event(event, valid, writeOk)
    \/ \E is_valid \in BOOLEAN, error_message \in {Msg_InvalidEventType},
          produceOk \in BOOLEAN : run_producer_iteration(is_valid, error_message, produceOk)
    \/ \E valid \in BOOLEAN, writeOk \in BOOLEAN :
          run_dead_letter_consumer_iteration(valid, writeOk)

SpecHandler == InitDefault /\ [][NextHandler]_vars

\* The valid-event path: batches handed to process_valid_events.
NextValidEvents ==
    \/ \E caller \in {"_run_events_consumer", "test"}, n \in 1..MaxBatchLen :
          process_valid_events_call(caller, n)
    \/ \E error \in TransformErrors \cup {NoError}, appendOk \in BOOLEAN, diskOk \in BOOLEAN,
          valid \in BOOLEAN, writeOk \in BOOLEAN :
          process_valid_events_message(error, appendOk, diskOk, valid, writeOk)
    \/ process_valid_events_return

SpecValidEvents == InitDefault /\ [][NextValidEvents]_vars

\* The pipeline run by its owner: start() and stop() calls and the four
\* loops, interleaved statement by statement.
NextPipeline ==
    \/ start
    \/ \E launchOk \in BOOLEAN : start_monitoring(launchOk)
    \/ start_launch
    \/ start_join
    \/ start_interrupted
    \/ stop_call
    \/ stop
    \/ \E flushOk \in BOOLEAN : stop_close_producer(flushOk)
    \/ stop_close_consumers
    \/ stop_close_sink_writer
    \/ \E diskOk \in BOOLEAN : stop_sink_writer_closed(diskOk)
    \/ stop_close_dead_letter_handler
    \/ stop_dead_letter_handler_closed
    \/ stop_join_monitoring
    \/ stop_return
    \/ \E thread \in Workers, expired \in BOOLEAN : worker_check(thread, expired)
    \/ \E is_valid \in BOOLEAN, error_message \in {Msg_InvalidEventType},
          produceOk \in BOOLEAN : producer_process(is_valid, error_message, produceOk)
    \/ producer_write_errors
    \/ \E n \in 0..MaxPolled : events_consume(n)
    \/ \E error \in {NoError, [type |-> Type_KeyError, message |-> Msg_FailedToParseUserAgent]} :
          events_message(error)
    \/ \E appendOk \in BOOLEAN, diskOk \in BOOLEAN : events_add_event(appendOk, diskOk)
    \/ events_write_errors
    \/ events_write_errors_raised
    \/ \E valid \in BOOLEAN, writeOk \in BOOLEAN : events_handler_returns(valid, writeOk)
    \/ events_write_dead_letter_events
    \/ events_batch_processed
    \/ events_write_batch_errors
    \/ dead_letter_consume
    \/ \E valid \in BOOLEAN, writeOk \in BOOLEAN : dead_letter_handler_returns(valid, writeOk)
    \/ dead_letter_write_dead_letter_events
    \/ monitoring_check
    \/ monitoring_health_check
    \/ monitoring_wake

SpecPipeline == InitDefault /\ [][NextPipeline]_vars

\* The health checks of the single components, called directly.
NextHealth ==
    \/ \E producer \in ProducerObjects : check_producer_health(producer)
    \/ \E consumer \in ConsumerObjects : check_consumer_health(consumer)
    \/ \E sink_writer \in SinkObjects : check_sink_health(sink_writer)
    \/ \E handler \in HandlerObjects : check_dead_letter_health(handler)
    \/ \E consumer \in {Broken, [readable |-> TRUE]} :
          check_dead_letter_consumer_health(consumer)

SpecHealth == InitDefault /\ [][NextHealth]_vars

\* The components passed to check_overall_health under each name: one
\* healthy, one with errors only, one that raises; "consumer" is the key
\* the tests use for the events consumer.
SnapshotProducers ==
    {Absent, Broken} \cup { [error_count |-> e, event_count |-> 1 - e, readable |-> TRUE] :
                                e \in 0..1 }
SnapshotConsumers ==
    {Absent, Broken} \cup { [processed_count |-> 1 - e, error_count |-> e,
                             readable |-> TRUE, batch_count |-> 1] : e \in 0..1 }
SnapshotSinks ==
    {Absent, Broken} \cup { [write |-> IF e > 0 THEN "fail" ELSE "ok",
                             readable |-> TRUE,
                             stats |-> [total_events_written |-> 1, files_written |-> 1,
                                        write_failures |-> e]] : e \in 0..1 }
SnapshotHandlers ==
    {Absent, Broken} \cup { [processed_count |-> 1 - e, error_count |-> e, readable |-> TRUE] :
                                e \in 0..1 }

\* The health checker taking snapshots.
NextSnapshot ==
    \E p \in SnapshotProducers, c \in SnapshotConsumers, s \in SnapshotSinks,
       h \in SnapshotHandlers, d \in {Absent, [readable |-> TRUE]},
       x \in {Absent, [processed_count |-> 1, error_count |-> 0, readable |-> TRUE,
                       batch_count |-> 1]} :
        check_overall_health(Present([producer |-> p, events_consumer |-> c,
                                      dead_letter_consumer |-> d, consumer |-> x,
                                      sink_writer |-> s, dead_letter_handler |-> h]))

SpecSnapshot == InitDefault /\ [][NextSnapshot]_vars

\* The metrics being assigned and read through get_metrics.
NextMetrics ==
    \/ \E field \in RateFields, n \in 0..MaxMetric : set_metric(field, n)
    \/ get_metrics

SpecMetrics == InitDefault /\ [][NextMetrics]_vars

\* The transformer called on raw events.
NextTransform ==
    \E event \in RawEvents, schema \in TransformedSchemas, clock \in 1..MaxClock :
        transform_user_event(event, schema, clock)

SpecTransform == InitDefault /\ [][NextTransform]_vars

----------------------------------------------------------------------------
\* Sink writer: helpers of the properties

\* The ids of the records held by the written files, file after file.
RECURSIVE WrittenIds(_)
WrittenIds(fs) ==
    IF fs = <<>> THEN <<>>
    ELSE IdsOf(Head(fs).records) \o WrittenIds(Tail(fs))

\* A value read back equals the value written, modulo the widening of an
\* int to a float column.
SameValue(read, written) ==
    \/ read = written
    \/ read.k = "float" /\ written.k = "int" /\ read.v = written.v * 100

\* C1 as stated: after exactly batch_size adds from an empty buffer there
\* was exactly one automatic flush, on the last add and on none before, and
\* the buffer is empty with files_written = 1 and total_events_written =
\* batch_size.
C1_Original ==
    /\ (onlyAdds /\ addCalls < batch_size) => autoFlushes = 0
    /\ (onlyAdds /\ addCalls = batch_size) =>
          /\ autoFlushes = 1
          /\ current_batch = <<>>
          /\ get_stats.files_written = 1
          /\ get_stats.total_events_written = batch_size

\* C1 amended: after exactly batch_size adds from an empty buffer there was
\* exactly one automatic flush, on the last add and on none before; when
\* its write succeeded the buffer is empty with files_written = 1 and
\* total_events_written = batch_size, and when its write failed the buffer
\* holds all batch_size records and both counters are 0.
C1_BatchSizeTrigger ==
    /\ (onlyAdds /\ addCalls < batch_size) =>
          /\ autoFlushes = 0
          /\ Len(current_batch) = addCalls
          /\ get_stats.files_written = 0
    /\ (onlyAdds /\ addCalls = batch_size) =>
          /\ autoFlushes = 1
          /\ lastWrite \in {"ok", "fail"}
          /\ lastWrite = "ok" =>
                /\ current_batch = <<>>
                /\ get_stats.files_written = 1
                /\ get_stats.total_events_written = batch_size
          /\ lastWrite = "fail" =>
                /\ Len(current_batch) = batch_size
                /\ get_stats.files_written = 0
                /\ get_stats.total_events_written = 0

C1_Witness ==
    /\ onlyAdds /\ addCalls = batch_size /\ batch_size = 3
    /\ lastOp = "add_event" /\ lastWrite = "ok" /\ file_count = 1

\* C2: a sink operation whose write fails leaves the buffered records (same
\* records, same order; add_event only appends its own record),
\* total_events_written, file_count and the files unchanged, and flush_batch
\* returns false.
C2_FailedWriteKeepsBuffer ==
    [][ lastWrite' = "fail" =>
          /\ total_events_written' = total_events_written
          /\ file_count' = file_count
          /\ files' = files
          /\ lastOp' = "flush_batch" => (lastRet' = FALSE /\ current_batch' = current_batch)
          /\ lastOp' = "close" => current_batch' = current_batch
          /\ lastOp' = "add_event" =>
                (current_batch' = current_batch \/
                 (Len(current_batch') = Len(current_batch) + 1 /\
                  SubSeq(current_batch', 1, Len(current_batch)) = current_batch)) ]_vars

C2_Witness ==
    /\ lastOp = "flush_batch" /\ lastWrite = "fail" /\ lastRet = FALSE
    /\ Len(current_batch) = 2 /\ file_count = 1

\* C3 as stated: a sink operation whose write failed returned false or
\* raised a failure counter of the writer's statistics.
C3_FailedWriteReported ==
    lastWrite = "fail" => (lastRet = FALSE \/ WriteFailures(get_stats) > 0)

\* C4: a flush_batch call on a non-empty buffer whose write succeeds returns
\* true, adds exactly one file holding exactly the buffered records in
\* order, adds 1 to file_count and the buffer length to
\* total_events_written, and empties the buffer; on an empty buffer it
\* returns true, writes no file and changes no counter.
C4_FlushWritesOneFile ==
    [][ lastOp' = "flush_batch" =>
          /\ (current_batch # <<>> /\ lastWrite' = "ok") =>
                /\ lastRet' = TRUE
                /\ Len(files') = Len(files) + 1
                /\ SubSeq(files', 1, Len(files)) = files
                /\ files'[Len(files')].records = current_batch
                /\ files'[Len(files')].table.num_rows = Len(current_batch)
                /\ file_count' = file_count + 1
                /\ total_events_written' = total_events_written + Len(current_batch)
                /\ current_batch' = <<>>
          /\ current_batch = <<>> =>
                /\ lastRet' = TRUE
                /\ lastWrite' = "none"
                /\ files' = files
                /\ file_count' = file_count
                /\ total_events_written' = total_events_written
                /\ current_batch' = <<>> ]_vars

C4_Witness ==
    /\ lastOp = "flush_batch" /\ lastWrite = "ok" /\ lastRet = TRUE
    /\ file_count = 2 /\ current_batch = <<>> /\ total_events_written = 3

\* C5: after close() returns and its write did not fail, the buffer is
\* empty, close returned true, total_events_written is the number of
\* records accepted by add_event, and every accepted record is in exactly
\* one written file.
C5_CloseFlushesAll ==
    (lastOp = "close" /\ lastWrite # "fail") =>
        /\ current_batch = <<>>
        /\ lastRet = TRUE
        /\ total_events_written = addCalls
        /\ WrittenIds(files) = [i \in 1..addCalls |-> i]

C5_Witness ==
    /\ lastOp = "close" /\ lastWrite = "ok" /\ addCalls = 3
    /\ file_count = 2 /\ total_events_written = 3

\* C6 as stated: a written file has as many rows as records were buffered,
\* in insertion order, its columns are the union of the records' field
\* names, a record lacking a field has null there, and every value that
\* was present reads back equal to the value written (nested maps
\* included), modulo the widening of the inferred column type.
C6_RoundTrip ==
    \A n \in 1..Len(files) :
        LET written == EventsOf(files[n].records)
            table == files[n].table
        IN  /\ table.num_rows = Len(written)
            /\ table.names = AllKeys(written)
            /\ \A key \in table.names : \A i \in 1..Len(written) :
                  IF key \in DOMAIN written[i]
                  THEN SameValue(table.col[key][i], written[i][key])
                  ELSE table.col[key][i] = None

----------------------------------------------------------------------------
\* consume_batch: properties

\* maxCount and maxWait of a call: the arguments, or the configured
\* defaults when an argument is omitted.
MaxCountOf(arg) == IF arg = NoArg THEN BATCH_SIZE ELSE arg
MaxWaitOf(arg) == IF arg = NoArg THEN BATCH_TIMEOUT_SECONDS * TicksPerSecond ELSE arg

\* The statement of C7 for the call that has returned.
ConsumeBatchContract ==
    LET maxCount == MaxCountOf(cbBatchSizeArg)
        maxWait == MaxWaitOf(cbTimeoutArg)
        n == Len(pollLog)
    IN  \* the polled records, in poll order, none lost, none twice
        /\ cbRet = Delivered(pollLog)
        \* never more than maxCount
        /\ Len(cbRet) <= maxCount
        \* it stopped for one of the three reasons ...
        /\ \/ Len(cbRet) >= maxCount
           \/ elapsed >= maxWait
           \/ (n > 0 /\ pollLog[n].msg = NoMessage)
        \* ... and at the first of them: every poll was made before any held
        /\ \A j \in 1..n :
              /\ j - 1 < maxCount
              /\ pollLog[j].at < maxWait
              /\ j > 1 => pollLog[j - 1].msg # NoMessage
        \* an empty first poll gives an empty batch
        /\ (n > 0 /\ pollLog[1].msg = NoMessage) => cbRet = <<>>
        \* three records and then nothing, maxCount = 5: exactly 3 records
        /\ (maxCount = 5 /\ n = 4 /\ pollLog[4].msg = NoMessage
              /\ \A j \in 1..3 : pollLog[j].msg # NoMessage) => Len(cbRet) = 3

\* C7 as stated: consume_batch(maxCount, maxWait) returns the records its
\* polls delivered, in poll order, without loss or duplication, stops at
\* the first of maxCount records collected, maxWait elapsed or an empty
\* poll, never returns more than maxCount records, returns the empty
\* sequence when the first poll is empty, and returns exactly 3 records
\* when 3 records and then nothing arrive with maxCount = 5.
C7_ConsumeBatch == cbPc = "done" => ConsumeBatchContract

\* The same statement for calls whose maxCount and maxWait are positive or
\* omitted; it holds.
C7_PositiveArguments ==
    (cbPc = "done" /\ cbBatchSizeArg # 0 /\ cbTimeoutArg # 0) => ConsumeBatchContract

C7_ScenarioReached ==
    /\ cbPc = "done" /\ cbBatchSizeArg = 5 /\ Len(pollLog) = 4
    /\ pollLog[4].msg = NoMessage /\ Len(cbRet) = 3

----------------------------------------------------------------------------
\* Dead-letter analysis: properties

\* Two characters are the same letter, whatever their case.
SameLetter(c, d) ==
    \/ c = d
    \/ \E i \in 1..26 : {c, d} = {UpperCase[i], LowerCase[i]}

\* The text mentions the word, case-insensitively.
Mentions(text, word) ==
    \E i \in 0..(Len(text) - Len(word)) :
        \A j \in 1..Len(word) : SameLetter(text[i + j], word[j])

\* The ordered rules of C8 for one record.
CategoryRules(error_type, msg, stage) ==
    << [hit |-> Mentions(msg, Kw_required) \/ Mentions(msg, Kw_missing),
        category |-> "missing_required_field"],
       [hit |-> Mentions(msg, Kw_enum) \/ Mentions(msg, Kw_not_one_of),
        category |-> "invalid_enum_value"],
       [hit |-> Mentions(msg, Kw_type) \/ Contains(Kw_TypeError, error_type),
        category |-> "data_type_error"],
       [hit |-> Mentions(msg, Kw_connection) \/ Mentions(msg, Kw_timeout),
        category |-> "network_error"],
       [hit |-> Mentions(msg, Kw_disk) \/ Mentions(msg, Kw_storage),
        category |-> "storage_error"],
       [hit |-> Contains(Kw_ValidationError, error_type) \/ Mentions(msg, Kw_schema),
        category |-> "schema_validation_error"],
       [hit |-> stage = "producer_validation", category |-> "producer_validation_error"],
       [hit |-> stage = "consumer_validation", category |-> "consumer_validation_error"],
       [hit |-> stage = "transformation", category |-> "transformation_error"],
       [hit |-> stage = "sink_write", category |-> "sink_write_error"],
       [hit |-> TRUE, category |-> "unknown_error"] >>

\* The category of the first rule that matches.
FirstMatch(rules) ==
    rules[CHOOSE i \in 1..Len(rules) : rules[i].hit /\ \A j \in 1..(i - 1) : ~rules[j].hit].category

\* C8: the category of an analysed record is that of the first matching
\* rule in the fixed order missing_required_field, invalid_enum_value,
\* data_type_error, network_error, storage_error, schema_validation_error,
\* stage-specific category, unknown_error; message matching is
\* case-insensitive and a later rule never overrides an earlier match.
C8_FirstMatchWins ==
    dlAnalyzed =>
        dlAnalysis.error_category =
            FirstMatch(CategoryRules(dlEvent.error_type, dlEvent.error_message,
                                     dlEvent.processing_stage))

\* A record matching the network rule and the schema rule, in upper case.
C8_Witness ==
    /\ dlAnalyzed
    /\ dlEvent.error_message = <<"S", "c", "h", "e", "m", "a", " ", "T", "i", "m", "e", "o", "u", "t">>
    /\ dlEvent.processing_stage = "sink_write"
    /\ dlAnalysis.error_category = "network_error"

\* C9 as stated: an analysed record whose category is
\* missing_required_field, invalid_enum_value, data_type_error or
\* schema_validation_error has can_retry = false, and the message 'Missing
\* required field: event_type' gives missing_required_field and can_retry =
\* false for every error_type and processing_stage.
C9_ValidationNeverRetryable ==
    dlAnalyzed =>
        /\ dlAnalysis.error_category \in
              {"missing_required_field", "invalid_enum_value", "data_type_error",
               "schema_validation_error"} => dlAnalysis.can_retry = FALSE
        /\ dlEvent.error_message = Msg_MissingRequiredField =>
              /\ dlAnalysis.error_category = "missing_required_field"
              /\ dlAnalysis.can_retry = FALSE

\* C10 as stated: an analysed record whose category is network_error or
\* storage_error has can_retry = true, and the message 'Connection timeout'
\* gives network_error and can_retry = true for every error_type and
\* processing_stage.
C10_NetworkStorageRetryable ==
    dlAnalyzed =>
        /\ dlAnalysis.error_category \in {"network_error", "storage_error"} =>
              dlAnalysis.can_retry = TRUE
        /\ dlEvent.error_message = Msg_ConnectionTimeout =>
              /\ dlAnalysis.error_category = "network_error"
              /\ dlAnalysis.can_retry = TRUE

\* The error_type names a failure that _can_retry_event never retries.
NeverRetriedType(error_type) ==
    \/ Contains(Kw_ValidationError, error_type)
    \/ Contains(Kw_TypeError, error_type)
    \/ Contains(Kw_required, error_type)

\* The error_type names a network or storage failure, in any case.
TransientType(error_type) ==
    \/ Mentions(error_type, Kw_connection) \/ Mentions(error_type, Kw_timeout)
    \/ Mentions(error_type, Kw_storage) \/ Mentions(error_type, Kw_disk)

\* C11 as stated: an analysed record whose processing_stage is
\* 'transformation' has can_retry = true, and a record matching none of the
\* validation, type, missing-field, network, storage or transformation-stage
\* rules has can_retry = false.
C11_Original ==
    dlAnalyzed =>
        /\ dlEvent.processing_stage = "transformation" => dlAnalysis.can_retry = TRUE
        /\ ( /\ ~NeverRetriedType(dlEvent.error_type)
             /\ ~TransientType(dlEvent.error_type)
             /\ dlEvent.processing_stage # "transformation" ) => dlAnalysis.can_retry = FALSE

\* C11 amended: an analysed record whose processing_stage is
\* 'transformation' and whose error_type contains none of 'ValidationError',
\* 'TypeError', 'required' has can_retry = true; one whose error_type does
\* contain one of them has can_retry = false whatever its stage; and a
\* record matching none of the validation, type, missing-field, network,
\* storage or transformation-stage rules has can_retry = false.
C11_TransformationRetryable ==
    dlAnalyzed =>
        /\ ( /\ dlEvent.processing_stage = "transformation"
             /\ ~NeverRetriedType(dlEvent.error_type) ) => dlAnalysis.can_retry = TRUE
        /\ NeverRetriedType(dlEvent.error_type) => dlAnalysis.can_retry = FALSE
        /\ ( /\ ~NeverRetriedType(dlEvent.error_type)
             /\ ~TransientType(dlEvent.error_type)
             /\ dlEvent.processing_stage # "transformation" ) => dlAnalysis.can_retry = FALSE

\* A transformation-stage record retried only because of its stage.
C11_Witness ==
    /\ dlAnalyzed
    /\ dlEvent.processing_stage = "transformation"
    /\ dlEvent.error_type = <<"K", "e", "y", "E", "r", "r", "o", "r">>
    /\ dlAnalysis.can_retry = TRUE

----------------------------------------------------------------------------
\* Dead-letter handler and valid-event path: properties

\* The dict carries an error_analysis.
HasAnalysis(event) == "error_analysis" \in DOMAIN event

\* C12: after a call of process_dead_letter_event on an event that carried
\* no error_analysis, the event carries an error_analysis (with
\* error_category, can_retry, remediation_suggestion and analyzed_at) if
\* and only if the call returned true, and then the analysed record is the
\* last document of the dead-letter directory.
C12_AnalysisIffSuccess ==
    (handlerCalls > 0 /\ ~HasAnalysis(hGiven)) =>
        /\ HasAnalysis(hEvent) <=> hRet
        /\ hRet =>
              /\ DOMAIN hEvent.error_analysis =
                    {"error_category", "can_retry", "remediation_suggestion", "analyzed_at"}
              /\ dead_letter_files # <<>>
              /\ dead_letter_files[Len(dead_letter_files)] = hEvent
              /\ hGiven.error_message.k = "str"

\* A call that succeeded and a document written for it.
C12_Witness ==
    /\ handlerCalls > 0 /\ ~HasAnalysis(hGiven)
    /\ hRet /\ HasAnalysis(hEvent)
    /\ hEvent.error_analysis.error_category = "network_error"
    /\ Len(dead_letter_files) = 1

\* C13 as stated: every message whose transform or sink add failed inside
\* process_valid_events was passed to the dead-letter handler exactly once,
\* as a record with processing_stage 'events_consumer_processing'.
C13_FailedRecordsDeadLettered ==
    \A i \in 1..Len(attempts) :
        attempts[i].outcome # "processed" =>
            Cardinality({ j \in 1..Len(handed) :
                            /\ handed[j].original_event = attempts[i].message
                            /\ handed[j].processing_stage = "events_consumer_processing" }) = 1

\* C14: process_valid_events attempts every message of the batch in order,
\* whatever failed before: while it runs the attempted messages are a
\* prefix of the batch and processed + errors is their number, and when it
\* has returned every message was attempted and processed + errors is the
\* number of messages (one processed and one failed give 1 and 1).
C14_EveryMessageAttempted ==
    /\ pvePc # "idle" =>
          /\ Len(attempts) <= Len(pveMessages)
          /\ \A i \in 1..Len(attempts) : attempts[i].message = pveMessages[i]
          /\ processed = Cardinality({ i \in 1..Len(attempts) : attempts[i].outcome = "processed" })
          /\ errors = Cardinality({ i \in 1..Len(attempts) : attempts[i].outcome # "processed" })
    /\ pvePc = "done" =>
          /\ Len(attempts) = Len(pveMessages)
          /\ processed + errors = Len(pveMessages)

\* A batch of two whose first message failed in transform and whose second
\* was processed.
C14_Witness ==
    /\ pvePc = "done" /\ Len(pveMessages) = 2
    /\ attempts[1].outcome = "raised" /\ attempts[2].outcome = "processed"
    /\ processed = 1 /\ errors = 1

\* C15: a call of process_dead_letter_event that fails increases the
\* handler's error_count by exactly 1 and returns false; it writes no
\* document, publishes nothing to the dead-letter topic and is the only
\* call of the handler made for the record.
C15_FailureNotRecursive ==
    [][ (handlerCalls' # handlerCalls /\ hRet' = FALSE) =>
          /\ error_count' = error_count + 1
          /\ processed_count' = processed_count
          /\ handlerCalls' = handlerCalls + 1
          /\ dead_letter_files' = dead_letter_files
          /\ dead_letter_topic' = dead_letter_topic
          /\ events_topic' = events_topic ]_vars

\* A record consumed from the dead-letter topic whose file write failed.
C15_Witness ==
    /\ dlOffset = 1 /\ handlerCalls = 1
    /\ hGiven.processing_stage = "producer_validation"
    /\ hRet = FALSE /\ error_count = 1 /\ processed_count = 0

----------------------------------------------------------------------------
\* Orchestrator: properties

\* stop() has returned and the owner has made no call since.
StopReturned == mainPc = "idle" /\ stops > 0

\* C16 as stated: is_running becomes true only through start() and false
\* only through stop(), the cancellation flag is never cleared once set,
\* and once a stop() has returned no start() or stop() call makes
\* is_running true again.
C16_Lifecycle ==
    [][ /\ (~is_running /\ is_running') => (mainPc = "idle" /\ mainPc' = "start_monitoring")
        /\ (is_running /\ ~is_running') => (mainPc = "stop" /\ mainPc' = "close_producer")
        /\ shutdown_event => shutdown_event'
        /\ stops > 0 => ~is_running' ]_vars

\* C17 as stated: when a call of stop() has returned, on a pipeline
\* started or not, the cancellation flag is set, is_running is false and
\* the producer, both consumers, the sink writer and the dead-letter
\* handler have all been closed by it, whatever closing any of them did.
C17_StopClosesEverything ==
    StopReturned =>
        /\ shutdown_event
        /\ ~is_running
        /\ closed = Components

\* C18 as stated: once the cancellation flag is set no loop passes its
\* loop test into another iteration, and when stop() has returned all four
\* loops have terminated.
C18_LoopsEndWithStop ==
    [][ /\ shutdown_event =>
              \A t \in Threads : pc[t] = "check" => pc'[t] \in {"check", "done"}
        /\ (mainPc # "idle" /\ mainPc' = "idle") =>
              \A t \in Threads : pc'[t] \in {"unstarted", "done"} ]_vars

\* C19 as stated: at most one task is inside the pipeline's sink writer
\* and at most one inside its dead-letter handler at any time, the caller
\* running stop() included.
C19_ExclusiveComponents ==
    /\ Cardinality(inSink) <= 1
    /\ Cardinality(inHandler) <= 1

\* The statements that write a shared counter back, per thread.
ErrorsWriters ==
    [producer |-> {"write_errors"},
     events_consumer |-> {"write_errors_add", "write_errors_raised", "write_errors_batch"}]
DeadLetterEventsWriters ==
    [events_consumer |-> {"write_dead_letter_events"},
     dead_letter_consumer |-> {"write_dead_letter_events"}]

\* The amount of the += a thread is about to write back.
Amount(t) == IF pc[t] = "write_errors_batch" THEN errors ELSE 1

\* C20: metrics.errors is written only by the producer loop and the
\* valid-event loop, metrics.dead_letter_events only by the valid-event
\* loop and the dead-letter loop, each write storing the value the loop
\* read earlier plus its amount, whatever the other loop wrote since; so a
\* counter never exceeds the sum of the amounts added and can fall short
\* of it.
C20_UnsynchronizedCounters ==
    [][ /\ metrics'.errors # metrics.errors =>
              \E t \in DOMAIN ErrorsWriters :
                  /\ pc[t] \in ErrorsWriters[t] /\ pc'[t] # pc[t]
                  /\ metrics'.errors = reg[t] + Amount(t)
        /\ metrics'.dead_letter_events # metrics.dead_letter_events =>
              \E t \in DOMAIN DeadLetterEventsWriters :
                  /\ pc[t] \in DeadLetterEventsWriters[t] /\ pc'[t] # pc[t]
                  /\ metrics'.dead_letter_events = reg[t] + 1
        /\ metrics'.errors <= increments'.errors
        /\ metrics'.dead_letter_events <= increments'.dead_letter_events ]_vars

\* A lost update: every loop has ended, the producer loop and the
\* valid-event loop have both added to metrics.errors, and the counter is
\* short of the sum of what they added.
C20_Witness ==
    /\ \A t \in Threads : pc[t] = "done"
    /\ producer_error_count > 0
    /\ errors > 0
    /\ metrics.errors < increments.errors

----------------------------------------------------------------------------
\* Health checker: properties

\* The successes and the errors a status is computed from, for the
\* component and the result of a check.
Successes(name, component, stats) ==
    CASE name = "producer" -> component.event_count
      [] name = "events_consumer" -> component.processed_count
      [] name = "sink_writer" -> stats.total_events_written
      [] name = "dead_letter_handler" -> component.processed_count
      [] OTHER -> 0
Failures(name, component, stats) ==
    CASE name = "producer" -> component.error_count
      [] name = "events_consumer" -> component.error_count
      [] name = "sink_writer" -> WriteFailures(stats)
      [] name = "dead_letter_handler" -> component.error_count
      [] OTHER -> 0

\* errors / (errors + successes) > 10 %
AboveTenPercent(n_errors, successes) ==
    n_errors + successes > 0 /\ 10 * n_errors > n_errors + successes

\* C21: for the producer and the valid-event consumer the status is
\* unhealthy exactly when reading the counters raises, otherwise warning
\* exactly when there was an attempt and the error ratio is strictly above
\* 10 %, otherwise healthy: 0 of 0 is healthy, 2 errors in 10 attempts is
\* warning, 1 error in 10 attempts is healthy.
C21_ProducerConsumerStatus ==
    lastHealth.name \in {"producer", "events_consumer"} =>
        LET c == lastHealth.component
            status == lastHealth.stats.status
        IN  IF ~c.readable THEN status = "unhealthy"
            ELSE LET e == Failures(lastHealth.name, c, lastHealth.stats)
                     n == Successes(lastHealth.name, c, lastHealth.stats)
                 IN  /\ status = (IF AboveTenPercent(e, n) THEN "warning" ELSE "healthy")
                     /\ (e = 0 /\ n = 0) => status = "healthy"
                     /\ (e = 2 /\ n = 8) => status = "warning"
                     /\ (e = 1 /\ n = 9) => status = "healthy"

\* The producer with 2 errors in 10 attempts has been checked.
C21_Witness ==
    /\ lastHealth.name = "producer"
    /\ lastHealth.component.readable
    /\ lastHealth.component.error_count = 2
    /\ lastHealth.component.event_count = 8
    /\ lastHealth.stats.status = "warning"

\* C22 as stated (refuted by the sink writer and the dead-letter handler):
\* for every component whose counters are readable, the
\* sink writer and the dead-letter handler included, the status is warning
\* exactly when errors / (errors + successes) exceeds 10 %, and healthy
\* otherwise.
C22_RatioForEveryComponent ==
    (lastHealth.name # "none" /\ lastHealth.component.readable) =>
        LET e == Failures(lastHealth.name, lastHealth.component, lastHealth.stats)
            n == Successes(lastHealth.name, lastHealth.component, lastHealth.stats)
        IN  lastHealth.stats.status =
                (IF AboveTenPercent(e, n) THEN "warning" ELSE "healthy")

\* C22: for the producer and the valid-event consumer the status of
\* readable counters is warning exactly when the error ratio exceeds 10 %;
\* for the sink writer it is warning exactly when its statistics report a
\* write_failures count above 0, and for the dead-letter handler exactly
\* when at least one dead-letter record failed, whatever the ratio; the
\* dead-letter consumer is always healthy; every other case is healthy.
C22_StatusPerComponent ==
    (lastHealth.name # "none" /\ lastHealth.component.readable) =>
        LET name == lastHealth.name
            e == Failures(name, lastHealth.component, lastHealth.stats)
            n == Successes(name, lastHealth.component, lastHealth.stats)
            warning == CASE name \in {"producer", "events_consumer"} -> AboveTenPercent(e, n)
                         [] name \in {"sink_writer", "dead_letter_handler"} -> e > 0
                         [] OTHER -> FALSE
        IN  lastHealth.stats.status = (IF warning THEN "warning" ELSE "healthy")

\* The dead-letter handler with 1 failure in 10 records has been checked:
\* the ratio is 10 % and the status is warning.
C22_Witness ==
    /\ lastHealth.name = "dead_letter_handler"
    /\ lastHealth.component.readable
    /\ lastHealth.component.error_count = 1
    /\ lastHealth.component.processed_count = 9
    /\ lastHealth.stats.status = "warning"

\* C23 as stated: the health check of a sink writer that has had a failed
\* write reports warning with the message 'Write failures detected', and
\* that of a sink writer with no failed write reports healthy.
C23_FailedWriteIsWarning ==
    (lastHealth.name = "sink_writer" /\ lastHealth.component.readable) =>
        IF lastHealth.component.write = "fail"
        THEN /\ lastHealth.stats.status = "warning"
             /\ lastHealth.stats.message = "Write failures detected"
        ELSE lastHealth.stats.status = "healthy"

\* The statuses of the entries of the stored snapshot.
SnapshotStatuses ==
    { health_status.components[n].status : n \in DOMAIN health_status.components }

\* C24: the overall status of a snapshot is unhealthy if one of its
\* components is unhealthy, else warning if one is warning, else healthy.
C24_OverallStatus ==
    last_check > 0 =>
        /\ "unhealthy" \in SnapshotStatuses => health_status.overall_status = "unhealthy"
        /\ ("unhealthy" \notin SnapshotStatuses /\ "warning" \in SnapshotStatuses) =>
               health_status.overall_status = "warning"
        /\ SnapshotStatuses \subseteq {"healthy"} => health_status.overall_status = "healthy"

\* A snapshot holding an unhealthy and a warning component is unhealthy.
C24_Witness ==
    /\ last_check > 0
    /\ {"unhealthy", "warning"} \subseteq SnapshotStatuses
    /\ health_status.overall_status = "unhealthy"

\* C25 as stated: the entries of the stored snapshot are exactly the names
\* passed to the call that built it, one entry each.
C25_EntriesAreTheNamesPassed ==
    last_check > 0 => DOMAIN health_status.components = DOMAIN hcComponents

----------------------------------------------------------------------------
\* Metrics: properties

\* The rate r equals dividend / divisor * 100, and 0 when divisor is 0.
IsRate(r, dividend, divisor) ==
    IF divisor = 0 THEN r[1] = 0 ELSE r[1] * divisor = 100 * dividend * r[2]

\* C26 as stated: get_metrics reports success_rate = events_written /
\* events_consumed x 100 and error_rate = errors / events_consumed x 100,
\* both 0 when events_consumed is 0.
C26_RatesOverEventsConsumed ==
    [][get_metrics =>
          /\ IsRate(lastMetrics'.success_rate, metrics.events_written,
                    metrics.events_consumed)
          /\ IsRate(lastMetrics'.error_rate, metrics.errors, metrics.events_consumed)]_vars

----------------------------------------------------------------------------
\* Producer: properties

\* C27 as stated: process_event does exactly one of two things.  For a
\* valid event it publishes the event once to the events topic, returns
\* true and adds exactly 1 to event_count, leaving error_count and the
\* dead-letter topic alone; for an invalid event it publishes one
\* dead-letter record with processing_stage "producer_validation", returns
\* false and adds exactly 1 to error_count, leaving event_count and the
\* events topic alone.
C27_ExactlyOneOutcome ==
    [][\A is_valid \in BOOLEAN, produceOk \in BOOLEAN :
          run_producer_iteration(is_valid, Msg_InvalidEventType, produceOk) =>
              IF is_valid
              THEN /\ Len(events_topic') = Len(events_topic) + 1
                   /\ SubSeq(events_topic', 1, Len(events_topic)) = events_topic
                   /\ dead_letter_topic' = dead_letter_topic
                   /\ producerRet' = TRUE
                   /\ producer_event_count' = producer_event_count + 1
                   /\ producer_error_count' = producer_error_count
              ELSE /\ Len(dead_letter_topic') = Len(dead_letter_topic) + 1
                   /\ SubSeq(dead_letter_topic', 1, Len(dead_letter_topic)) = dead_letter_topic
                   /\ dead_letter_topic'[Len(dead_letter_topic')].processing_stage
                          = "producer_validation"
                   /\ events_topic' = events_topic
                   /\ producerRet' = FALSE
                   /\ producer_error_count' = producer_error_count + 1
                   /\ producer_event_count' = producer_event_count]_vars

----------------------------------------------------------------------------
\* Offsets: properties

\* C28 as stated, for the valid-event consumer: once a batch has been
\* processed with no error and the consumer is back at its loop test, the
\* offsets of all the records it has consumed are committed.
C28_ProcessedIsCommitted ==
    (/\ pc["events_consumer"] \in {"check", "done"}
     /\ pveCaller = "_run_events_consumer"
     /\ pvePc = "done"
     /\ errors = 0) => committed["events_consumer"] = eventsOffset

----------------------------------------------------------------------------
\* Transformer: properties

\* The amount of an event, 0 when it has none.
AmountOf(event) == IF "amount" \in DOMAIN event THEN event.amount ELSE 0

\* C29 as stated: transforming an event yields an enriched record that
\* holds processed_at and processing_version and a revenue equal to the
\* amount for a purchase and to 0 for every other event type; for a
\* purchase of 99.99 it holds normalized_event_type "conversion",
\* event_category "commerce", is_conversion true and revenue 99.99.
C29_PurchaseRevenue ==
    trResult.called =>
        /\ ~trResult.result.raised
        /\ LET event == trResult.event
               value == trResult.result.value
           IN  /\ {"processed_at", "processing_version", "revenue"} \subseteq DOMAIN value
               /\ value.revenue = (IF event.event_type = "purchase" THEN AmountOf(event) ELSE 0)
               /\ (event.event_type = "purchase" /\ AmountOf(event) = 9999) =>
                      /\ value.normalized_event_type = "conversion"
                      /\ value.event_category = "commerce"
                      /\ value.is_conversion
                      /\ value.revenue = 9999

----------------------------------------------------------------------------
\* Orchestrator: exceptions

\* C30 as stated: no call of start() or stop() ends with an exception
\* raised to its caller.
C30_NoExceptionPropagates == mainPc # "raised"

----------------------------------------------------------------------------
\* Sink writer: column types

\* The column type of a value of the given kind.
TypeOfKind(kind) ==
    CASE kind = "bool" -> "bool"
      [] kind = "int" -> "int64"
      [] kind = "float" -> "float64"
      [] kind = "str" -> "string"
      [] kind = "dict" -> "struct<>"
      [] kind = "list" -> "list<string>"
      [] OTHER -> "string"

\* The positions of the values of a column that are not null.
NonNull(column) == { j \in 1..Len(column) : column[j] # None }

\* The smallest element of a non-empty set of numbers.
Least(set) == CHOOSE j \in set : \A k \in set : j <= k

\* C31: in every written file the type of each column is the one of the
\* first non-null value of that column in the batch of the file (a bool is
\* bool, not integer), and a column with null values only has the null
\* type.
C31_TypeFromFirstNonNull ==
    \A i \in 1..Len(files) :
        LET table == files[i].table
            evs == EventsOf(files[i].records)
        IN  \A key \in table.names :
                LET column == Column(evs, key)
                IN  table.type[key] =
                        (IF NonNull(column) = {} THEN "null"
                         ELSE TypeOfKind(column[Least(NonNull(column))].k))

\* Two files give the field revenue different types, a file has a boolean
\* column and a file has a column of the null type.
C31_Witness ==
    /\ \E i, j \in 1..Len(files) :
          /\ "revenue" \in files[i].table.names \cap files[j].table.names
          /\ files[i].table.type["revenue"] # files[j].table.type["revenue"]
    /\ \E i \in 1..Len(files) :
          \E key \in files[i].table.names : files[i].table.type[key] = "null"
    /\ \E i \in 1..Len(files) :
          \E key \in files[i].table.names : files[i].table.type[key] = "bool"

----------------------------------------------------------------------------
\* Sink writer: conservation of records

\* The ids of the records of all files, file after file, followed by the
\* ids of the buffered records.
StoredIds == WrittenIds(files) \o IdsOf(current_batch)

\* C32: after any sequence of add_event, flush_batch and close calls with
\* writes failing arbitrarily, the number of records accepted by add_event
\* equals total_events_written plus the length of the buffer, and no
\* record is stored twice (in two files, or in a file and in the buffer).
C32_RecordsConserved ==
    /\ addCalls = total_events_written + Len(current_batch)
    /\ \A i, j \in 1..Len(StoredIds) : StoredIds[i] = StoredIds[j] => i = j
    /\ { StoredIds[i] : i \in 1..Len(StoredIds) } = 1..addCalls

\* A write has just failed on a writer that has written a file before and
\* still buffers records.
C32_Witness ==
    /\ lastWrite = "fail"
    /\ Len(files) >= 1
    /\ current_batch # <<>>
    /\ addCalls = MaxAdds

----------------------------------------------------------------------------
\* Sink writer: retry of a failed automatic flush

\* C33: an add_event call that brings the buffer to batch_size records or
\* more, as every call does after an automatic flush has failed, attempts
\* a flush of the whole buffer with the new record in it; when the write
\* fails the buffer keeps all the records and no file is added, and when
\* it succeeds all the accumulated records form one new file and the
\* buffer is empty.
C33_FailedFlushRetried ==
    [][(addCalls' = addCalls + 1 /\ Len(current_batch) + 1 >= batch_size) =>
          /\ lastWrite' \in {"ok", "fail"}
          /\ IF lastWrite' = "ok"
             THEN /\ current_batch' = <<>>
                  /\ Len(files') = Len(files) + 1
                  /\ SubSeq(files', 1, Len(files)) = files
                  /\ IdsOf(files'[Len(files')].records) =
                         Append(IdsOf(current_batch), addCalls + 1)
             ELSE /\ IdsOf(current_batch') = Append(IdsOf(current_batch), addCalls + 1)
                  /\ Len(current_batch') >= batch_size
                  /\ files' = files]_vars

\* Only add_event has been called, an automatic flush has failed earlier
\* and the last call wrote more than batch_size records into one file.
C33_Witness ==
    /\ onlyAdds
    /\ lastOp = "add_event"
    /\ lastWrite = "ok"
    /\ Len(files) = 1
    /\ Len(files[1].records) > batch_size
    /\ current_batch = <<>>

----------------------------------------------------------------------------
\* Valid-event loop: counters of a batch

\* The number of attempts of the current batch with the given outcomes.
Attempted(outcomes) ==
    Cardinality({ i \in 1..Len(attempts) : attempts[i].outcome \in outcomes })

\* C34 as stated, for the first batch of a pipeline whose counters start
\* at 0: when _run_events_consumer has finished the batch, metrics.errors
\* is the number of records of the batch that failed and
\* events_transformed the number that succeeded.
C34_ErrorsCountedOnce ==
    (pveBatches = 1 /\ pvePc = "done" /\ pveCaller = "_run_events_consumer") =>
        /\ metrics.errors = Attempted({"raised", "add_failed"})
        /\ metrics.events_transformed = Attempted({"processed"})

\* C35 as stated: in every reachable state, the states in the middle of
\* a batch included, events_transformed <= events_written <=
\* valid_events_consumed.
C35_CountersOrdered ==
    /\ metrics.events_transformed <= metrics.events_written
    /\ metrics.events_written <= metrics.valid_events_consumed

----------------------------------------------------------------------------
\* Dead-letter handler: counters

\* C36: each completed call of process_dead_letter_event increases
\* exactly one of processed_count and error_count, by exactly 1, and
\* returns true exactly when it is processed_count; with calls that do not
\* overlap processed_count + error_count is the number of completed calls.
C36_OneCounterPerCall ==
    /\ [](processed_count + error_count = handlerCalls)
    /\ [][handlerCalls' # handlerCalls =>
             IF hRet'
             THEN processed_count' = processed_count + 1 /\ error_count' = error_count
             ELSE error_count' = error_count + 1 /\ processed_count' = processed_count]_vars

\* Two calls have completed, one of each outcome.
C36_Witness ==
    /\ handlerCalls = 2
    /\ processed_count = 1
    /\ error_count = 1

----------------------------------------------------------------------------
\* Orchestrator: the sink writer after stop()

\* C37 as stated: once stop() has flushed and closed the sink writer no
\* loop adds a record to it: neither its buffer nor its files change.
C37_NoAddAfterClose ==
    [][ "sink_writer" \in closed =>
            (current_batch' = current_batch /\ files' = files) ]_vars

----------------------------------------------------------------------------
\* Orchestrator: a second stop()

\* A step of the owner of the pipeline after a stop() has returned.
AfterFirstStop == stops >= 1 /\ mainPc' # mainPc

\* C38 as stated: a stop() called after a stop() has returned writes no
\* further file and leaves the sink totals, the handler's counters and
\* the metrics counters unchanged.
C38_StopIdempotent ==
    [][ AfterFirstStop =>
            /\ UNCHANGED <<files, file_count, total_events_written>>
            /\ UNCHANGED <<processed_count, error_count, metrics>> ]_vars

\* C38: a stop() called after a stop() has returned leaves the handler's
\* counters and the metrics counters unchanged and never writes a record
\* that is in a file already.  It leaves the sink writer unchanged when
\* the buffer is empty as it closes the sink writer; when records are
\* buffered (the final write of the first stop() failed, or a loop added
\* them after it), close attempts one more write, which either fails and
\* changes nothing or puts exactly the buffered records into one new file
\* and adds their number to total_events_written.
C38_SecondStop ==
    [][ AfterFirstStop =>
            /\ UNCHANGED <<processed_count, error_count, metrics>>
            /\ IF mainPc = "in_sink_writer" /\ current_batch # <<>>
               THEN \/ UNCHANGED <<current_batch, files, file_count, total_events_written>>
                    \/ /\ current_batch' = <<>>
                       /\ Len(files') = Len(files) + 1
                       /\ SubSeq(files', 1, Len(files)) = files
                       /\ files'[Len(files')].records = current_batch
                       /\ file_count' = file_count + 1
                       /\ total_events_written' = total_events_written + Len(current_batch)
                       /\ \A i \in 1..Len(current_batch), j \in 1..Len(WrittenIds(files)) :
                              current_batch[i].id # WrittenIds(files)[j]
               ELSE UNCHANGED <<current_batch, files, file_count, total_events_written>> ]_vars

\* A second stop() is closing the sink writer while a record is buffered.
C38_Witness ==
    /\ stops = 1
    /\ mainPc = "in_sink_writer"
    /\ current_batch # <<>>

----------------------------------------------------------------------------
\* Consumer: polls that deliver no record

\* The poll outcomes for which consume_message returns None.
NoRecordOutcomes == {"none", "error", "badjson"}

\* C39: in consume_batch a poll that yields a broker error or a payload
\* that is not JSON does what an empty poll does: the loop ends at once,
\* the batch returned is the records appended before it, no counter of the
\* metrics, the producer or the dead-letter handler moves and nothing is
\* published to the dead-letter topic or handed to the handler.
C39_BadPollEndsBatch ==
    [][ (Len(pollLog') = Len(pollLog) + 1
            /\ pollLog'[Len(pollLog')].outcome \in NoRecordOutcomes) =>
            /\ cbPc' = "done"
            /\ messages' = messages
            /\ cbRet' = messages
            /\ cbRet' = Delivered(pollLog)
            /\ \A i \in 1..Len(pollLog) : pollLog[i].outcome = "event"
            /\ UNCHANGED <<metrics, handlerVars, producerVars>> ]_vars

\* A call that had appended a record has returned it alone, with room and
\* time left, after a poll that yielded a payload that is not JSON.
C39_Witness ==
    /\ cbPc = "done"
    /\ Len(pollLog) = 2
    /\ pollLog[2].outcome = "badjson"
    /\ cbRet = <<1>>
    /\ LoopCondition(messages, elapsed, cbBatchSizeArg, cbTimeoutArg)

----------------------------------------------------------------------------
\* Valid-event loop: the dead-letter records it builds

\* C40 as stated: every dead-letter record process_valid_events has built
\* and handed to the dead-letter handler is one for which
\* process_dead_letter_event returns true when the record passes the
\* schema and the file write succeeds.
C40_SynthesizedRecordAccepted ==
    \A i \in 1..Len(handed) :
        ProcessDeadLetterEvent(Handler, handed[i], TRUE, TRUE, handlerCalls + 1).ret

====
